---- MODULE Spec2Model ----
(***************************************************************************)
(* A model of the expression-language pipeline of blastbao/expr:           *)
(* parser (src/parser/parser.go), type checker (src/checker/checker.go),   *)
(* compiler (src/unnamed/part_002) and virtual machine (src/vm/vm.go).     *)
(* The source text is represented by its sequence of lexemes; every lexeme *)
(* occupies one unit of the source, so a Location is a range of lexeme     *)
(* offsets.                                                                *)
(***************************************************************************)
EXTENDS Integers, Sequences, FiniteSets, TLC

(***************************************************************************)
(* Bounds of the model.                                                    *)
(***************************************************************************)
\* largest integer of an environment
MaxLit == 2
\* longest environment array
MaxArrLen == 2
\* longest source of the exhaustive family, in lexemes
MaxSrcLen == 2
\* longest source of the exhaustive family, in runes
MaxTextLen == 3

(***************************************************************************)
(* Program constants.                                                      *)
(***************************************************************************)
DefaultMaxNodes == 10000
DefaultMemoryBudget == 1000000
placeholder == 12345

(***************************************************************************)
(* Tokens and locations.                                                   *)
(***************************************************************************)
Location(from, to) == [From |-> from, To |-> to]

ZeroLocation == Location(0, 0)

Token(kind, value, loc) == [Kind |-> kind, Value |-> value, Location |-> loc]

\* Token.Is(kind, values...): values = {} stands for "no values given"
Is(tok, kind, values) ==
    /\ tok.Kind = kind
    /\ (values = {} \/ tok.Value \in values)

\* The token stream of a source: one token per lexeme, closed by EOF.
Lex(src) ==
    [i \in 1..(Len(src) + 1) |->
        IF i <= Len(src)
        THEN Token(src[i].Kind, src[i].Value, Location(i - 1, i))
        ELSE Token("EOF", "",
                   Location(IF Len(src) = 0 THEN 0 ELSE Len(src) - 1, Len(src)))]

NumLit == <<"0", "1", "2", "3", "4", "5", "6", "7", "8", "9">>

\* the string of a sequence of runes
RECURSIVE Concat(_)
Concat(runes) == IF runes = <<>> THEN "" ELSE runes[1] \o Concat(Tail(runes))

\* the number a sequence of decimal digits denotes
RECURSIVE DecValue(_)
DecValue(digits) ==
    IF digits = <<>> THEN 0
    ELSE 10 * DecValue(SubSeq(digits, 1, Len(digits) - 1))
         + (CHOOSE i \in 1..Len(NumLit) : NumLit[i] = digits[Len(digits)]) - 1

\* the decimal literals of at most MaxTextLen digits with their values
IntLits ==
    {[s |-> Concat(t), v |-> DecValue(t)] :
        t \in UNION {[1..k -> {NumLit[i] : i \in 1..Len(NumLit)}] : k \in 1..MaxTextLen}}

\* strconv.ParseInt on a decimal literal of the modelled alphabet
ParseInt(s) == (CHOOSE e \in IntLits : e.s = s).v

IsIntLit(s) == \E e \in IntLits : e.s = s

\* the literals with a dot of at most MaxTextLen runes: ParseFloat accepts one
\* with a single dot and a digit, its value being num / den
FloatLits ==
    {[s |-> Concat(t),
      ok |-> /\ Cardinality({i \in 1..Len(t) : t[i] = "."}) = 1
             /\ Len(t) > 1,
      num |-> DecValue(SelectSeq(t, LAMBDA r : r # ".")),
      den |-> LET dots == {i \in 1..Len(t) : t[i] = "."}
              IN  IF dots = {} THEN 1
                  ELSE 10 ^ (Len(t) - CHOOSE i \in dots : \A j \in dots : j <= i)] :
        t \in {u \in UNION {[1..k -> {NumLit[i] : i \in 1..Len(NumLit)} \cup {"."}] :
                              k \in 1..MaxTextLen} :
                  \E i \in 1..Len(u) : u[i] = "."}}

\* strings.ContainsAny(value, ".e") on a literal of the modelled alphabet
IsFloatLit(s) == \E e \in FloatLits : e.s = s

ParseFloat(s) == CHOOSE e \in FloatLits : e.s = s

(***************************************************************************)
(* Operator tables (package operator).                                     *)
(***************************************************************************)
Left == 1
Right == 2

Unary ==
    [op \in {"not", "!", "-", "+"} |->
        IF op \in {"not", "!"} THEN [Precedence |-> 50, Associativity |-> Left]
        ELSE [Precedence |-> 90, Associativity |-> Left]]

BinaryOps ==
    {"|", "or", "||", "and", "&&", "==", "!=", "<", ">", ">=", "<=", "in",
     "matches", "contains", "startsWith", "endsWith", "..", "+", "-", "*",
     "/", "%", "**", "^", "??"}

Binary ==
    [op \in BinaryOps |->
        CASE op = "|" -> [Precedence |-> 0, Associativity |-> Left]
          [] op \in {"or", "||"} -> [Precedence |-> 10, Associativity |-> Left]
          [] op \in {"and", "&&"} -> [Precedence |-> 15, Associativity |-> Left]
          [] op \in {"==", "!=", "<", ">", ">=", "<=", "in", "matches",
                     "contains", "startsWith", "endsWith"}
                -> [Precedence |-> 20, Associativity |-> Left]
          [] op = ".." -> [Precedence |-> 25, Associativity |-> Left]
          [] op \in {"+", "-"} -> [Precedence |-> 30, Associativity |-> Left]
          [] op \in {"*", "/", "%"} -> [Precedence |-> 60, Associativity |-> Left]
          [] op \in {"**", "^"} -> [Precedence |-> 100, Associativity |-> Right]
          [] op = "??" -> [Precedence |-> 500, Associativity |-> Left]]

IsComparison(op) == op \in {"<", ">", ">=", "<="}

AllowedNegateSuffix(op) ==
    op \in {"contains", "matches", "startsWith", "endsWith", "in"}

\* utils.IsValidIdentifier on the operator spellings of the language
IsValidIdentifier(s) ==
    s \in {"in", "or", "and", "not", "matches", "contains", "startsWith",
           "endsWith", "let", "if", "else"}

(***************************************************************************)
(* AST nodes.  Null is Go's nil Node.  located records that SetLocation    *)
(* was called on the node.                                                 *)
(***************************************************************************)
Null == [type |-> "<nil>"]

IsNull(n) == n.type = "<nil>"

\* the absent *Nature of the fields ArrayOf and PredicateOut
NoNature == [Kind |-> "<none>"]

Nature(kind, isNil, arrayOfNt, out) ==
    [Kind |-> kind, Nil |-> isNil, ArrayOf |-> arrayOfNt, PredicateOut |-> out]

\* Nature{}: Type is nil, whose Kind() is reflect.Invalid
UnknownNature == Nature("invalid", FALSE, NoNature, NoNature)

NilNode == [type |-> "NilNode", loc |-> ZeroLocation, located |-> FALSE, nature |-> UnknownNature]

IdentifierNode(v) ==
    [type |-> "IdentifierNode", Value |-> v, loc |-> ZeroLocation, located |-> FALSE,
     nature |-> UnknownNature]

IntegerNode(v) ==
    [type |-> "IntegerNode", Value |-> v, loc |-> ZeroLocation, located |-> FALSE,
     nature |-> UnknownNature]

FloatNode(v) ==
    [type |-> "FloatNode", Value |-> v, loc |-> ZeroLocation, located |-> FALSE,
     nature |-> UnknownNature]

BoolNode(v) ==
    [type |-> "BoolNode", Value |-> v, loc |-> ZeroLocation, located |-> FALSE,
     nature |-> UnknownNature]

StringNode(v) ==
    [type |-> "StringNode", Value |-> v, loc |-> ZeroLocation, located |-> FALSE,
     nature |-> UnknownNature]

UnaryNode(op, n) ==
    [type |-> "UnaryNode", Operator |-> op, Node |-> n, loc |-> ZeroLocation, located |-> FALSE,
     nature |-> UnknownNature]

BinaryNode(op, l, r) ==
    [type |-> "BinaryNode", Operator |-> op, Left |-> l, Right |-> r,
     loc |-> ZeroLocation, located |-> FALSE, nature |-> UnknownNature]

ChainNode(n) ==
    [type |-> "ChainNode", Node |-> n, loc |-> ZeroLocation, located |-> FALSE,
     nature |-> UnknownNature]

MemberNode(n, prop, optional, method) ==
    [type |-> "MemberNode", Node |-> n, Property |-> prop,
     Optional |-> optional, Method |-> method, loc |-> ZeroLocation, located |-> FALSE,
     nature |-> UnknownNature]

SliceNode(n, from, to) ==
    [type |-> "SliceNode", Node |-> n, From |-> from, To |-> to,
     loc |-> ZeroLocation, located |-> FALSE, nature |-> UnknownNature]

CallNode(callee, args) ==
    [type |-> "CallNode", Callee |-> callee, Arguments |-> args,
     loc |-> ZeroLocation, located |-> FALSE, nature |-> UnknownNature]

BuiltinNode(name, args) ==
    [type |-> "BuiltinNode", Name |-> name, Arguments |-> args,
     Throws |-> FALSE, Map |-> Null, loc |-> ZeroLocation, located |-> FALSE,
     nature |-> UnknownNature]

PredicateNode(n) ==
    [type |-> "PredicateNode", Node |-> n, loc |-> ZeroLocation, located |-> FALSE,
     nature |-> UnknownNature]

\* frame: the number of predicate scopes open when the checker resolved the
\* pointer (0 before it is checked), kept for the comparison with the run
PointerNode(name) ==
    [type |-> "PointerNode", Name |-> name, loc |-> ZeroLocation, located |-> FALSE,
     nature |-> UnknownNature, frame |-> 0]

VariableDeclaratorNode(name, value, expr) ==
    [type |-> "VariableDeclaratorNode", Name |-> name, Value |-> value,
     Expr |-> expr, loc |-> ZeroLocation, located |-> FALSE, nature |-> UnknownNature]

SequenceNode(nodes) ==
    [type |-> "SequenceNode", Nodes |-> nodes, loc |-> ZeroLocation, located |-> FALSE,
     nature |-> UnknownNature]

ConditionalNode(cond, e1, e2) ==
    [type |-> "ConditionalNode", Cond |-> cond, Exp1 |-> e1, Exp2 |-> e2,
     loc |-> ZeroLocation, located |-> FALSE, nature |-> UnknownNature]

ArrayNode(nodes) ==
    [type |-> "ArrayNode", Nodes |-> nodes, loc |-> ZeroLocation, located |-> FALSE,
     nature |-> UnknownNature]

MapNode(pairs) ==
    [type |-> "MapNode", Pairs |-> pairs, loc |-> ZeroLocation, located |-> FALSE,
     nature |-> UnknownNature]

PairNode(k, v) ==
    [type |-> "PairNode", Key |-> k, Value |-> v, loc |-> ZeroLocation, located |-> FALSE,
     nature |-> UnknownNature]

\* the children of a node, in the order ast.Walk visits them
Children(node) ==
    CASE node.type \in {"UnaryNode", "ChainNode", "PredicateNode"} -> <<node.Node>>
      [] node.type = "BinaryNode" -> <<node.Left, node.Right>>
      [] node.type = "MemberNode" -> <<node.Node, node.Property>>
      [] node.type = "SliceNode" -> <<node.Node, node.From, node.To>>
      [] node.type = "CallNode" -> <<node.Callee>> \o node.Arguments
      [] node.type = "BuiltinNode" -> node.Arguments \o <<node.Map>>
      [] node.type = "VariableDeclaratorNode" -> <<node.Value, node.Expr>>
      [] node.type \in {"SequenceNode", "ArrayNode"} -> node.Nodes
      [] node.type = "ConditionalNode" -> <<node.Cond, node.Exp1, node.Exp2>>
      [] node.type = "MapNode" -> node.Pairs
      [] node.type = "PairNode" -> <<node.Key, node.Value>>
      [] OTHER -> <<>>

\* a node with its children replaced, in the order of Children
WithChildren(node, cs) ==
    CASE node.type \in {"UnaryNode", "ChainNode", "PredicateNode"} ->
           [node EXCEPT !.Node = cs[1]]
      [] node.type = "BinaryNode" -> [node EXCEPT !.Left = cs[1], !.Right = cs[2]]
      [] node.type = "MemberNode" ->
           [node EXCEPT !.Node = cs[1], !.Property = cs[2]]
      [] node.type = "SliceNode" ->
           [node EXCEPT !.Node = cs[1], !.From = cs[2], !.To = cs[3]]
      [] node.type = "CallNode" ->
           [node EXCEPT !.Callee = cs[1], !.Arguments = Tail(cs)]
      [] node.type = "BuiltinNode" ->
           [node EXCEPT !.Arguments = SubSeq(cs, 1, Len(cs) - 1),
                        !.Map = cs[Len(cs)]]
      [] node.type = "VariableDeclaratorNode" ->
           [node EXCEPT !.Value = cs[1], !.Expr = cs[2]]
      [] node.type \in {"SequenceNode", "ArrayNode"} -> [node EXCEPT !.Nodes = cs]
      [] node.type = "ConditionalNode" ->
           [node EXCEPT !.Cond = cs[1], !.Exp1 = cs[2], !.Exp2 = cs[3]]
      [] node.type = "MapNode" -> [node EXCEPT !.Pairs = cs]
      [] node.type = "PairNode" -> [node EXCEPT !.Key = cs[1], !.Value = cs[2]]
      [] OTHER -> node

\* node.Location(); calling it on a nil Node panics in Go
LocationOf(n) == IF IsNull(n) THEN ZeroLocation ELSE n.loc

(***************************************************************************)
(* Errors (file.Error).                                                    *)
(***************************************************************************)
NoError == [isnil |-> TRUE, Location |-> ZeroLocation, Message |-> ""]

Error(loc, msg) == [isnil |-> FALSE, Location |-> loc, Message |-> msg]

MsgUnexpectedToken == "unexpected token"
MsgUnexpectedEnd == "unexpected end of expression"
MsgNodeLimit == "compilation failed: expression exceeds maximum allowed nodes"
MsgCoalesceMix == "Operator and coalesce expressions (??) cannot be mixed"

(***************************************************************************)
(* The lexer on runes.  A source is a sequence of one-rune strings; eof is *)
(* the rune lexer.next returns past the end.  A lexer state l carries the  *)
(* fields of the Go struct and state, the stateFn to run next ("nil" ends  *)
(* the loop of Lex).                                                       *)
(***************************************************************************)
eof == "eof"

\* the rune that opens and closes a raw string literal
backquote == "backquote"

\* the runes of the modelled sources that unicode.IsLetter accepts, with _ and $
Letters ==
    {"a", "b", "c", "d", "e", "f", "g", "h", "i", "j", "k", "l", "m", "n", "o",
     "p", "q", "r", "s", "t", "u", "v", "w", "x", "y", "z", "A", "B", "C", "D",
     "E", "F", "O", "U", "X", "_", "$"}

DecDigits == {"0", "1", "2", "3", "4", "5", "6", "7", "8", "9"}

\* utils.IsSpace
IsSpace(r) == r \in {" ", "\n", "\t", "\r"}

\* utils.IsAlphaNumeric
IsAlphaNumeric(r) == r \in Letters \cup DecDigits

NewLexer(source) ==
    [source |-> source, tokens |-> <<>>, start |-> 0, end |-> 0,
     err |-> NoError, state |-> "root"]

commit(l) == [l EXCEPT !.start = l.end]

\* the rune lexer.next returns
lexerPeek(l) == IF l.end >= Len(l.source) THEN eof ELSE l.source[l.end + 1]

\* the lexer after lexer.next
lexerNext(l) == [l EXCEPT !.end = @ + 1]

backup(l) == [l EXCEPT !.end = @ - 1]

word(l) ==
    IF l.start > Len(l.source) \/ l.end > Len(l.source) THEN "__invalid__"
    ELSE Concat(SubSeq(l.source, l.start + 1, l.end))

emitValue(l, t, value) ==
    commit([l EXCEPT !.tokens =
               Append(@, Token(t, value, Location(l.start, l.end)))])

lexerEmit(l, t) == emitValue(l, t, word(l))

\* an emitEOF that appends no token
emitEOFDropped(l) == commit(l)

emitEOF(l) ==
    LET from == IF l.end - 2 < 0 THEN 0 ELSE l.end - 2
        to == IF l.end - 1 < 0 THEN 0 ELSE l.end - 1
    IN  commit([l EXCEPT !.tokens = Append(@, Token("EOF", "", Location(from, to)))])

skip(l) == commit(l)

accepts(l, valid) == lexerPeek(l) \in valid

accept(l, valid) == IF accepts(l, valid) THEN lexerNext(l) ELSE l

RECURSIVE acceptRun(_, _)
acceptRun(l, valid) ==
    IF accepts(l, valid) THEN acceptRun(lexerNext(l), valid) ELSE l

skipSpaces(l) == skip(acceptRun(l, {" "}))

\* lexer.error: the first error is kept; the callers return the nil state
lexerError(l, msg) ==
    IF l.err.isnil
    THEN [l EXCEPT !.err = Error(Location(l.end - 1, l.end), msg)]
    ELSE l

HexLower == <<"a", "b", "c", "d", "e", "f">>

HexUpper == <<"A", "B", "C", "D", "E", "F">>

digitVal(ch) ==
    IF ch \in DecDigits THEN CHOOSE d \in 0..9 : NumLit[d + 1] = ch
    ELSE IF \E i \in 1..6 : ch \in {HexLower[i], HexUpper[i]}
    THEN 9 + CHOOSE i \in 1..6 : ch \in {HexLower[i], HexUpper[i]}
    ELSE 16

\* a scan result: the lexer and the last rune read
LR(l, ch) == [l |-> l, ch |-> ch]

RECURSIVE scanDigits(_, _, _, _)
scanDigits(l, ch, base, n) ==
    IF n > 0 /\ digitVal(ch) < base
    THEN scanDigits(lexerNext(l), lexerPeek(l), base, n - 1)
    ELSE LR(IF n > 0 THEN lexerError(l, "invalid char escape") ELSE l, ch)

\* the rune after the backslash is read and classified
scanEscape(l, quote) ==
    LET ch == lexerPeek(l)
        l1 == lexerNext(l)
    IN  CASE ch \in {"a", "b", "f", "n", "r", "t", "v", "\\", quote} ->
               LR(lexerNext(l1), lexerPeek(l1))
          [] ch \in {"0", "1", "2", "3", "4", "5", "6", "7"} ->
               scanDigits(l1, ch, 8, 3)
          [] ch = "x" -> scanDigits(lexerNext(l1), lexerPeek(l1), 16, 2)
          [] ch = "u" -> scanDigits(lexerNext(l1), lexerPeek(l1), 16, 4)
          [] ch = "U" -> scanDigits(lexerNext(l1), lexerPeek(l1), 16, 8)
          [] OTHER -> LR(lexerError(l1, "invalid char escape"), ch)

\* the loop of scanString, ch being the rune read last
RECURSIVE scanStringFrom(_, _, _)
scanStringFrom(l, ch, quote) ==
    IF ch = quote THEN l
    ELSE IF ch = "\n" \/ ch = eof THEN lexerError(l, "literal not terminated")
    ELSE IF ch = "\\"
    THEN LET e == scanEscape(l, quote) IN scanStringFrom(e.l, e.ch, quote)
    ELSE scanStringFrom(lexerNext(l), lexerPeek(l), quote)

scanString(l, quote) == scanStringFrom(lexerNext(l), lexerPeek(l), quote)

RECURSIVE scanRawStringFrom(_, _, _)
scanRawStringFrom(l, ch, quote) ==
    IF ch = quote
    THEN emitValue(l, "String", Concat(SubSeq(l.source, l.start + 2, l.end - 1)))
    ELSE IF ch = eof THEN lexerError(l, "literal not terminated")
    ELSE scanRawStringFrom(lexerNext(l), lexerPeek(l), quote)

scanRawString(l, quote) == scanRawStringFrom(lexerNext(l), lexerPeek(l), quote)

\* the runes of a quoted literal without its quotes, each escape replaced by
\* the rune it denotes; ok is FALSE for a literal unescape rejects
RECURSIVE unescapeFrom(_, _)
unescapeFrom(runes, i) ==
    IF i > Len(runes) THEN [ok |-> TRUE, v |-> ""]
    ELSE IF runes[i] # "\\"
    THEN LET rest == unescapeFrom(runes, i + 1)
         IN  [ok |-> rest.ok, v |-> runes[i] \o rest.v]
    ELSE IF i = Len(runes) THEN [ok |-> FALSE, v |-> ""]
    ELSE LET rest == unescapeFrom(runes, i + 2)
             c == runes[i + 1]
         IN  CASE c \in {"\\", "'", "\""} -> [ok |-> rest.ok, v |-> c \o rest.v]
               [] c = "n" -> [ok |-> rest.ok, v |-> "\n" \o rest.v]
               [] c = "t" -> [ok |-> rest.ok, v |-> "\t" \o rest.v]
               [] OTHER -> [ok |-> FALSE, v |-> ""]

unescape(runes) ==
    IF Len(runes) < 2 \/ runes[1] # runes[Len(runes)]
    THEN [ok |-> FALSE, v |-> Concat(runes)]
    ELSE unescapeFrom(SubSeq(runes, 2, Len(runes) - 1), 1)

\* the lexer with its next state function
To(l, state) == [l EXCEPT !.state = state]

root(l) ==
    LET r == lexerPeek(l)
        l1 == lexerNext(l)
    IN  CASE r = eof -> To(emitEOF(l1), "nil")
          [] IsSpace(r) -> To(skip(l1), "root")
          [] r \in {"'", "\""} ->
               LET l2 == scanString(l1, r)
                   runes == IF l2.start > Len(l2.source) \/ l2.end > Len(l2.source)
                            THEN <<"__invalid__">>
                            ELSE SubSeq(l2.source, l2.start + 1, l2.end)
                   str == unescape(runes)
               IN  To(emitValue(IF str.ok THEN l2
                                ELSE lexerError(l2, "unable to unescape string"),
                                "String", str.v),
                      "root")
          [] r = backquote -> To(scanRawString(l1, r), "root")
          [] r \in DecDigits -> To(backup(l1), "number")
          [] r = "?" -> To(l1, "questionMark")
          [] r = "/" -> To(l1, "slash")
          [] r = "#" -> To(l1, "pointer")
          [] r = "|" -> To(lexerEmit(accept(l1, {"|"}), "Operator"), "root")
          [] r = ":" -> To(lexerEmit(accept(l1, {":"}), "Operator"), "root")
          [] r \in {"(", "[", "{"} -> To(lexerEmit(l1, "Bracket"), "root")
          [] r \in {")", "]", "}"} -> To(lexerEmit(l1, "Bracket"), "root")
          [] r \in {",", ";", "%", "+", "-", "^"} ->
               To(lexerEmit(l1, "Operator"), "root")
          [] r \in {"&", "!", "=", "*", "<", ">"} ->
               To(lexerEmit(accept(l1, {"&", "=", "*"}), "Operator"), "root")
          [] r = "." -> To(backup(l1), "dot")
          [] IsAlphaNumeric(r) -> To(backup(l1), "identifier")
          [] OTHER -> To(lexerError(l1, "unrecognized character"), "nil")

\* scanNumber: the lexer after the scan and whether the literal is well formed
scanNumber(l) ==
    LET zero == accepts(l, {"0"})
        l1 == accept(l, {"0"})
        digits ==
            IF zero /\ accepts(l1, {"x", "X"})
            THEN DecDigits \cup {"a", "b", "c", "d", "e", "f",
                                 "A", "B", "C", "D", "E", "F", "_"}
            ELSE IF zero /\ accepts(l1, {"o", "O"})
            THEN {"0", "1", "2", "3", "4", "5", "6", "7", "_"}
            ELSE IF zero /\ accepts(l1, {"b", "B"}) THEN {"0", "1", "_"}
            ELSE DecDigits \cup {"_"}
        l2 == IF zero THEN accept(l1, {"x", "X", "o", "O", "b", "B"}) ELSE l1
        l3 == acceptRun(l2, digits)
        l4 == accept(l3, {"."})
    IN  IF accepts(l3, {"."}) /\ lexerPeek(l4) = "."
        THEN [l |-> l3, ok |-> TRUE]
        ELSE LET l5 == IF accepts(l3, {"."}) THEN acceptRun(l4, digits) ELSE l3
                 l6 == IF accepts(l5, {"e", "E"})
                       THEN acceptRun(accept(accept(l5, {"e", "E"}), {"+", "-"}),
                                      digits)
                       ELSE l5
             IN  IF IsAlphaNumeric(lexerPeek(l6))
                 THEN [l |-> lexerNext(l6), ok |-> FALSE]
                 ELSE [l |-> l6, ok |-> TRUE]

number(l) ==
    LET s == scanNumber(l)
    IN  IF ~s.ok THEN To(lexerError(s.l, "bad number syntax"), "nil")
        ELSE To(lexerEmit(s.l, "Number"), "root")

dot(l) ==
    LET l1 == lexerNext(l)
    IN  IF accepts(l1, DecDigits) THEN To(l1, "number")
        ELSE To(lexerEmit(accept(l1, {"."}), "Operator"), "root")

WordOperators ==
    {"in", "or", "and", "matches", "contains", "startsWith", "endsWith", "let",
     "if", "else"}

identifier(l) ==
    LET l1 == acceptRun(l, Letters \cup DecDigits)
    IN  IF word(l1) = "not" THEN To(l1, "not")
        ELSE IF word(l1) \in WordOperators THEN To(lexerEmit(l1, "Operator"), "root")
        ELSE To(lexerEmit(l1, "Identifier"), "root")

not(l) ==
    LET l1 == skipSpaces(lexerEmit(l, "Operator"))
        l2 == acceptRun(l1, Letters \cup DecDigits)
    IN  IF word(l2) \in {"in", "matches", "contains", "startsWith", "endsWith"}
        THEN To(lexerEmit(l2, "Operator"), "root")
        ELSE To(l1, "root")

questionMark(l) == To(lexerEmit(accept(l, {".", "?"}), "Operator"), "root")

slash(l) ==
    IF accepts(l, {"/"}) THEN To(lexerNext(l), "singleLineComment")
    ELSE IF accepts(l, {"*"}) THEN To(lexerNext(l), "multiLineComment")
    ELSE To(lexerEmit(l, "Operator"), "root")

RECURSIVE singleLineComment(_)
singleLineComment(l) ==
    IF lexerPeek(l) \in {eof, "\n"} THEN To(skip(lexerNext(l)), "root")
    ELSE singleLineComment(lexerNext(l))

RECURSIVE multiLineComment(_)
multiLineComment(l) ==
    LET r == lexerPeek(l)
        l1 == lexerNext(l)
    IN  IF r = eof THEN To(lexerError(l1, "unclosed comment"), "nil")
        ELSE IF r = "*" /\ accepts(l1, {"/"}) THEN To(skip(lexerNext(l1)), "root")
        ELSE multiLineComment(l1)

pointer(l) ==
    LET l1 == lexerEmit(accept(l, {"#"}), "Operator")
        l2 == acceptRun(l1, Letters \cup DecDigits)
    IN  To(IF word(l2) # "" THEN lexerEmit(l2, "Identifier") ELSE l2, "root")

\* one iteration of the loop of Lex: state = state(l)
stateFn(l) ==
    CASE l.state = "root" -> root(l)
      [] l.state = "number" -> number(l)
      [] l.state = "dot" -> dot(l)
      [] l.state = "identifier" -> identifier(l)
      [] l.state = "not" -> not(l)
      [] l.state = "questionMark" -> questionMark(l)
      [] l.state = "slash" -> slash(l)
      [] l.state = "singleLineComment" -> singleLineComment(l)
      [] l.state = "multiLineComment" -> multiLineComment(l)
      [] l.state = "pointer" -> pointer(l)

(***************************************************************************)
(* The parser.  A parser state p carries the fields of the Go struct and   *)
(* the flag panic, set when a Go panic unwinds the parser: every operation *)
(* on a panicked parser is a no-op, which models the unwinding.            *)
(***************************************************************************)
NilConfig ==
    [isnil |-> TRUE, MaxNodes |-> 0, Optimize |-> FALSE, Expect |-> "invalid",
     Functions |-> <<>>, Visitors |-> <<>>, Env |-> UnknownNature]

Config(maxNodes, optimize) ==
    [isnil |-> FALSE, MaxNodes |-> maxNodes, Optimize |-> optimize,
     Expect |-> "invalid", Functions |-> <<>>, Visitors |-> <<>>,
     Env |-> UnknownNature]

\* a configuration built with expr.Env(v) for a struct value v
WithEnv(config, env) == [config EXCEPT !.Env = env]

\* a configuration built with expr.AsInt(), AsInt64() or AsFloat64()
AsKind(config, kind) == [config EXCEPT !.Expect = kind]

\* a parser function's result: the parser state and the returned node
R(p, n) == [p |-> p, node |-> n]

errorAt(p, tok, msg) ==
    IF p.panic \/ ~p.err.isnil THEN p
    ELSE [p EXCEPT !.err = Error(tok.Location, msg)]

error(p, msg) == errorAt(p, p.current, msg)

next(p) ==
    IF p.panic THEN p
    ELSE IF p.pos + 1 >= Len(p.tokens)
         THEN error([p EXCEPT !.pos = p.pos + 1], MsgUnexpectedEnd)
         ELSE [p EXCEPT !.pos = p.pos + 1, !.current = p.tokens[p.pos + 2]]

expect(p, kind, values) ==
    IF p.panic THEN p
    ELSE IF Is(p.current, kind, values) THEN next(p)
         ELSE error(p, MsgUnexpectedToken)

checkNodeLimit(p) ==
    LET p1 == [p EXCEPT !.nodeCount = p.nodeCount + 1]
    IN  IF p.config.isnil
        THEN IF p1.nodeCount > DefaultMaxNodes
             THEN error(p1, MsgNodeLimit) ELSE p1
        ELSE IF p.config.MaxNodes > 0 /\ p1.nodeCount > p.config.MaxNodes
             THEN error(p1, MsgNodeLimit) ELSE p1

createNode(p, n, loc) ==
    IF p.panic THEN R(p, Null)
    ELSE LET p1 == checkNodeLimit([p EXCEPT !.built = @ + 1])
         IN  IF IsNull(n) \/ ~p1.err.isnil THEN R(p1, Null)
             ELSE R(p1, [n EXCEPT !.loc = loc, !.located = TRUE])

createMemberNode(p, n, loc) == createNode(p, n, loc)

\* a Go panic (failed type assertion, nil dereference) inside the parser
Panic(p) == [p EXCEPT !.panic = TRUE]

Arg(kind, opt) == [kind |-> kind, optional |-> opt]

PredicateNames ==
    {"all", "none", "any", "one", "filter", "map", "count", "sum", "find",
     "findIndex", "findLast", "findLastIndex", "groupBy", "sortBy", "reduce"}

predicates ==
    [name \in PredicateNames |->
        CASE name \in {"count", "sum"}
                -> <<Arg("expr", FALSE), Arg("predicate", TRUE)>>
          [] name \in {"sortBy", "reduce"}
                -> <<Arg("expr", FALSE), Arg("predicate", FALSE),
                     Arg("expr", TRUE)>>
          [] OTHER -> <<Arg("expr", FALSE), Arg("predicate", FALSE)>>]

\* the names of builtin.Index that are not predicates (none is modelled)
BuiltinIndex == {"len"}

RECURSIVE call(_, _, _)
RECURSIVE parseSequenceExpression(_)
RECURSIVE sequenceLoop(_)
RECURSIVE parseExpression(_, _)
RECURSIVE expressionLoop(_, _, _)
RECURSIVE expressionOperator(_, _, _, _, _, _)
RECURSIVE parseVariableDeclaration(_)
RECURSIVE variableBody(_, _)
RECURSIVE parseConditionalIf(_)
RECURSIVE conditionalIfThen(_)
RECURSIVE conditionalIfElse(_, _)
RECURSIVE parseConditional(_)
RECURSIVE conditionalElse(_, _)
RECURSIVE conditionalNode(_, _, _)
RECURSIVE parsePrimary(_)
RECURSIVE parseSecondary(_)
RECURSIVE parseCall(_, _, _, _)
RECURSIVE predicateArgsLoop(_, _, _)
RECURSIVE parseArguments(_, _)
RECURSIVE argumentsLoop(_, _)
RECURSIVE parsePredicate(_)
RECURSIVE parseArrayExpression(_, _)
RECURSIVE arrayLoop(_)
RECURSIVE parseMapExpression(_, _)
RECURSIVE mapLoop(_, _)
RECURSIVE mapKey(_, _, _, _)
RECURSIVE mapValue(_, _, _, _)
RECURSIVE parsePostfixExpression(_)
RECURSIVE postfixLoop(_)
RECURSIVE postfixNext(_)
RECURSIVE postfixMember(_, _, _)
RECURSIVE memberChain(_, _, _)
RECURSIVE postfixIndex(_, _, _, _)
RECURSIVE indexFrom(_, _, _, _)
RECURSIVE sliceTo(_)
RECURSIVE parseComparison(_, _, _, _)
RECURSIVE comparisonLoop(_, _, _, _, _)
RECURSIVE comparisonNode(_, _, _, _, _)

(***************************************************************************)
(* The parser's methods.  A method that takes a node takes it with the     *)
(* parser state as a result r (r.p, r.node); the value a call returns is   *)
(* handed to the operator that models the statements after the call.       *)
(***************************************************************************)
\* nodes = append(nodes, <the node r returns>)
appendTo(nodes, r) == R(r.p, Append(nodes, r.node))

\* p.expect(...) after the call that returned r
expectR(r, kind, values) == R(expect(r.p, kind, values), r.node)

\* the for loop of parseSequenceExpression; rl.node is the slice nodes
sequenceLoop(rl) ==
    IF rl.p.panic \/ ~(Is(rl.p.current, "Operator", {";"}) /\ rl.p.err.isnil)
    THEN rl
    ELSE LET p1 == next(rl.p)
         IN  IF Is(p1.current, "EOF", {}) THEN R(p1, rl.node)
             ELSE sequenceLoop(appendTo(rl.node, call("parseExpression", p1, 0)))

\* the end of parseSequenceExpression: one node is returned as it is
sequenceNode(rl) ==
    IF rl.p.panic THEN R(rl.p, Null)
    ELSE IF Len(rl.node) = 1 THEN R(rl.p, rl.node[1])
    ELSE IF IsNull(rl.node[1]) THEN R(Panic(rl.p), Null)
    ELSE createNode(rl.p, SequenceNode(rl.node), rl.node[1].loc)

parseSequenceExpression(p) ==
    IF p.panic THEN R(p, Null)
    ELSE sequenceNode(sequenceLoop(appendTo(<<>>, call("parseExpression", p, 0))))

parseExpression(p, precedence) ==
    IF p.panic \/ ~p.err.isnil THEN R(p, Null)
    ELSE IF precedence = 0 /\ Is(p.current, "Operator", {"let"})
         THEN parseVariableDeclaration(p)
    ELSE IF precedence = 0 /\ Is(p.current, "Operator", {"if"})
         THEN parseConditionalIf(p)
    ELSE IF precedence = 0
         THEN parseConditional(expressionLoop(parsePrimary(p), precedence, ""))
    ELSE expressionLoop(parsePrimary(p), precedence, "")

\* the operator loop of parseExpression: r.node is nodeLeft and the loop's
\* opToken is r.p.current
expressionLoop(r, precedence, prevOperator) ==
    IF r.p.panic \/ ~(Is(r.p.current, "Operator", {}) /\ r.p.err.isnil)
    THEN r
    ELSE
    LET negate == Is(r.p.current, "Operator", {"not"})
        pn == IF negate THEN next(r.p) ELSE r.p
        opToken == pn.current
    IN  IF negate /\ ~AllowedNegateSuffix(opToken.Value)
        THEN R(error(pn, MsgUnexpectedToken), r.node)
        ELSE IF negate /\ ~(/\ opToken.Value \in BinaryOps
                            /\ Binary[opToken.Value].Precedence >= precedence)
        THEN R([pn EXCEPT !.pos = r.p.pos, !.current = r.p.current], r.node)
        ELSE IF opToken.Value \notin BinaryOps THEN R(pn, r.node)
        ELSE IF Binary[opToken.Value].Precedence < precedence THEN R(pn, r.node)
        ELSE expressionOperator(next(pn), r.node, opToken, negate, precedence,
                                prevOperator)

\* the binary node of parseExpression and its negation; the log statement
\* between them asserts nodeLeft.(*BinaryNode)
expressionBinary(rr, nodeLeft, opToken, negate) ==
    LET rb == createNode(rr.p, BinaryNode(opToken.Value, nodeLeft, rr.node),
                         opToken.Location)
    IN  IF rb.p.panic THEN rb
        ELSE IF IsNull(rb.node) THEN R(Panic(rb.p), Null)
        ELSE IF negate
             THEN createNode(rb.p, UnaryNode("not", rb.node), opToken.Location)
             ELSE rb

\* the body of the loop after the operator was consumed (p1 is the parser
\* after p.next()), and the next iteration
expressionOperator(p1, nodeLeft, opToken, negate, precedence, prevOperator) ==
    LET op == Binary[opToken.Value]
    IN  IF opToken.Value = "|"
        THEN expressionLoop(parseCall(expect(p1, "Identifier", {}), p1.current,
                                      <<nodeLeft>>, TRUE),
                            precedence, opToken.Value)
        ELSE IF prevOperator = "??" /\ opToken.Value # "??"
                /\ ~Is(opToken, "Bracket", {"("})
        THEN R(errorAt(p1, opToken, MsgCoalesceMix), nodeLeft)
        ELSE IF IsComparison(opToken.Value)
        THEN expressionLoop(parseComparison(p1, nodeLeft, opToken, op.Precedence),
                            precedence, opToken.Value)
        ELSE expressionLoop(
                 expressionBinary(call("parseExpression", p1, IF op.Associativity = Left
                                                      THEN op.Precedence + 1
                                                      ELSE op.Precedence),
                                  nodeLeft, opToken, negate),
                 precedence, opToken.Value)

\* let name = value; the statements after the value was parsed
variableNode(variableName, value, rs) ==
    createNode(rs.p, VariableDeclaratorNode(variableName.Value, value, rs.node),
               variableName.Location)

variableBody(variableName, rv) ==
    variableNode(variableName, rv.node,
                 call("parseSequenceExpression", expect(rv.p, "Operator", {";"}), 0))

parseVariableDeclaration(p) ==
    LET p1 == expect(p, "Operator", {"let"})
    IN  variableBody(p1.current,
                     call("parseExpression", expect(expect(p1, "Identifier", {}),
                                            "Operator", {"="}), 0))

\* the ConditionalNode of parseConditionalIf is built without createNode
conditionalIfNode(condition, expr1, r2) ==
    LET p6 == expect(r2.p, "Bracket", {"}"})
    IN  IF p6.panic THEN R(p6, Null)
        ELSE R([p6 EXCEPT !.built = @ + 1],
               ConditionalNode(condition, expr1, r2.node))

conditionalIfElse(condition, r1) ==
    conditionalIfNode(condition, r1.node,
        call("parseSequenceExpression", 
            expect(expect(expect(r1.p, "Bracket", {"}"}), "Operator", {"else"}),
                   "Bracket", {"{"}), 0))

conditionalIfThen(rc) ==
    conditionalIfElse(rc.node,
                      call("parseSequenceExpression", expect(rc.p, "Bracket", {"{"}), 0))

parseConditionalIf(p) == conditionalIfThen(call("parseExpression", next(p), 0))

\* the node of a ternary; the log statement asserts node.(*ConditionalNode)
\* before the nil test
conditionalNode(node, expr1, re2) ==
    LET rn == createNode(re2.p, ConditionalNode(node, expr1, re2.node),
                         re2.p.current.Location)
    IN  IF rn.p.panic THEN rn
        ELSE IF IsNull(rn.node) THEN R(Panic(rn.p), Null)
        ELSE parseConditional(rn)

\* a ? b : c after b was parsed
conditionalElse(node, re1) ==
    conditionalNode(node, re1.node,
                    call("parseExpression", expect(re1.p, "Operator", {":"}), 0))

parseConditional(r) ==
    IF r.p.panic \/ ~(Is(r.p.current, "Operator", {"?"}) /\ r.p.err.isnil)
    THEN r
    ELSE LET p1 == next(r.p)
         IN  IF Is(p1.current, "Operator", {":"})
             THEN conditionalNode(r.node, r.node, call("parseExpression", next(p1), 0))
             ELSE conditionalElse(r.node, call("parseExpression", p1, 0))

\* if node == nil { return nil }; return p.parsePostfixExpression(node)
postfixUnlessNil(rn) ==
    IF IsNull(rn.node) THEN R(rn.p, Null) ELSE call("parsePostfixExpression", rn, 0)

\* the unary node of parsePrimary, after its operand was parsed
unaryNode(token, re) ==
    postfixUnlessNil(createNode(re.p, UnaryNode(token.Value, re.node),
                                token.Location))

parsePrimary(p) ==
    IF p.panic THEN R(p, Null)
    ELSE
    LET token == p.current
        p1 == next(p)
        named == Is(token, "Operator", {"#"}) /\ Is(p1.current, "Identifier", {})
    IN  IF Is(token, "Operator", {}) /\ token.Value \in DOMAIN Unary
        THEN unaryNode(token, call("parseExpression", p1, Unary[token.Value].Precedence))
        ELSE IF Is(token, "Bracket", {"("})
        THEN call("parsePostfixExpression", 
                 expectR(call("parseSequenceExpression", p1, 0), "Bracket", {")"}), 0)
        ELSE IF p.depth > 0 /\ Is(token, "Operator", {"#"})
        THEN postfixUnlessNil(
                 createNode(IF named THEN next(p1) ELSE p1,
                            PointerNode(IF named THEN p1.current.Value ELSE ""),
                            token.Location))
        ELSE IF p.depth > 0 /\ Is(token, "Operator", {"."})
        THEN postfixUnlessNil(createNode(p, PointerNode(""), token.Location))
        ELSE IF Is(token, "Operator", {"::"})
        THEN call("parsePostfixExpression", 
                 parseCall(expect(p1, "Identifier", {}), p1.current, <<>>, FALSE), 0)
        ELSE parseSecondary(p)

\* math.MaxInt is the largest int64 on the modelled platform, so the
\* "integer literal is too large" branch is dead
toIntegerNode(p, int) == createNode(p, IntegerNode(int), p.current.Location)

\* math.MaxFloat64 exceeds every modelled literal
toFloatNode(p, float) == createNode(p, FloatNode(float), p.current.Location)

parseSecondary(p) ==
    IF p.panic THEN R(p, Null)
    ELSE
    LET token == p.current
        p1 == next(p)
    IN  CASE token.Kind = "Identifier" ->
             IF token.Value \in {"true", "false"}
             THEN createNode(p1, BoolNode(token.Value = "true"), token.Location)
             ELSE IF token.Value = "nil"
             THEN createNode(p1, NilNode, token.Location)
             ELSE IF Is(p1.current, "Bracket", {"("})
             THEN call("parsePostfixExpression", parseCall(p1, token, <<>>, TRUE), 0)
             ELSE postfixUnlessNil(createNode(p1, IdentifierNode(token.Value),
                                              token.Location))
          [] token.Kind = "Number" ->
             LET rn == IF IsFloatLit(token.Value)
                       THEN toFloatNode(IF ParseFloat(token.Value).ok THEN p1
                                        ELSE error(p1, "invalid float literal"),
                                        [num |-> ParseFloat(token.Value).num,
                                         den |-> ParseFloat(token.Value).den])
                       ELSE toIntegerNode(IF IsIntLit(token.Value) THEN p1
                                          ELSE error(p1, "invalid integer literal"),
                                          IF IsIntLit(token.Value)
                                          THEN ParseInt(token.Value) ELSE 0)
             IN  IF IsNull(rn.node) THEN rn
                 ELSE R(rn.p, [rn.node EXCEPT !.loc = token.Location,
                                              !.located = TRUE])
          [] token.Kind = "String" ->
             postfixUnlessNil(createNode(p1, StringNode(token.Value),
                                         token.Location))
          [] OTHER ->
             IF Is(token, "Bracket", {"["})
             THEN call("parsePostfixExpression", parseArrayExpression(p, token), 0)
             ELSE IF Is(token, "Bracket", {"{"})
             THEN call("parsePostfixExpression", parseMapExpression(p, token), 0)
             ELSE call("parsePostfixExpression", R(error(p, MsgUnexpectedToken), Null), 0)

\* the argument loop of a predicate builtin; rl.node is the slice arguments
\* and i the 1-based index into args
predicateArgsLoop(rl, args, i) ==
    IF rl.p.panic \/ i > Len(args) THEN rl
    ELSE
    LET atClose == Is(rl.p.current, "Bracket", {")"})
        p1 == IF atClose THEN error(rl.p, "expected at least arguments")
              ELSE rl.p
        p2 == IF i > 1 THEN expect(p1, "Operator", {","}) ELSE p1
    IN  IF args[i].optional /\ atClose THEN rl
        ELSE predicateArgsLoop(
                 appendTo(rl.node, IF args[i].kind = "expr"
                                   THEN call("parseExpression", p2, 0)
                                   ELSE parsePredicate(p2)),
                 args, i + 1)

\* the builtin node of a predicate call, after its arguments were parsed
callPredicate(token, rl) ==
    createNode(expect(IF Is(rl.p.current, "Operator", {","}) THEN next(rl.p)
                      ELSE rl.p,
                      "Bracket", {")"}),
               BuiltinNode(token.Value, rl.node), token.Location)

callBuiltin(token, ra) ==
    createNode(ra.p, BuiltinNode(token.Value, ra.node), token.Location)

callFunction(token, callee, ra) ==
    createNode(ra.p, CallNode(callee, ra.node), token.Location)

\* no function is configured, so config.IsOverridden and config.Disabled
\* are false for every name
parseCall(p, token, arguments, checkOverrides) ==
    IF p.panic THEN R(p, Null)
    ELSE IF token.Value \in PredicateNames
    THEN callPredicate(token,
             predicateArgsLoop(R(expect(p, "Bracket", {"("}), arguments),
                               SubSeq(predicates[token.Value], Len(arguments) + 1,
                                      Len(predicates[token.Value])),
                               1))
    ELSE IF token.Value \in BuiltinIndex
    THEN callBuiltin(token, parseArguments(p, arguments))
    ELSE LET rc == createNode(p, IdentifierNode(token.Value), token.Location)
         IN  IF IsNull(rc.node) THEN R(rc.p, Null)
             ELSE callFunction(token, rc.node, parseArguments(rc.p, arguments))

\* rl.node is the slice arguments
argumentsLoop(rl, offset) ==
    IF rl.p.panic \/ ~(~Is(rl.p.current, "Bracket", {")"}) /\ rl.p.err.isnil)
    THEN rl
    ELSE LET p1 == IF Len(rl.node) > offset
                   THEN expect(rl.p, "Operator", {","}) ELSE rl.p
         IN  IF Is(p1.current, "Bracket", {")"}) THEN R(p1, rl.node)
             ELSE argumentsLoop(appendTo(rl.node, call("parseExpression", p1, 0)), offset)

\* the result's node is the argument list
parseArguments(p, arguments) ==
    expectR(argumentsLoop(R(expect(p, "Bracket", {"("}), arguments),
                          Len(arguments)),
            "Bracket", {")"})

\* the end of parsePredicate; r is the parsed body
predicateNode(r, startToken, withBrackets) ==
    LET p3 == IF ~withBrackets /\ Is(r.p.current, "Operator", {";"})
              THEN error(r.p, "wrap predicate with brackets { and }")
              ELSE r.p
        p4 == [p3 EXCEPT !.depth = p3.depth - 1]
        p5 == IF withBrackets THEN expect(p4, "Bracket", {"}"}) ELSE p4
    IN  IF p5.panic THEN R(p5, Null)
        ELSE createNode(p5, PredicateNode(r.node), startToken.Location)

parsePredicate(p) ==
    IF p.panic THEN R(p, Null)
    ELSE IF Is(p.current, "Bracket", {"{"})
    THEN predicateNode(
             call("parseSequenceExpression", [next(p) EXCEPT !.depth = p.depth + 1], 0),
             p.current, TRUE)
    ELSE predicateNode(call("parseExpression", [p EXCEPT !.depth = p.depth + 1], 0),
                       p.current, FALSE)

\* rl.node is the slice nodes
arrayLoop(rl) ==
    IF rl.p.panic \/ ~(~Is(rl.p.current, "Bracket", {"]"}) /\ rl.p.err.isnil)
    THEN rl
    ELSE LET p1 == IF Len(rl.node) > 0 THEN expect(rl.p, "Operator", {","})
                   ELSE rl.p
         IN  IF Len(rl.node) > 0 /\ Is(p1.current, "Bracket", {"]"})
             THEN R(p1, rl.node)
             ELSE arrayLoop(appendTo(rl.node, call("parseExpression", p1, 0)))

arrayNode(rl, token) ==
    createNode(expect(rl.p, "Bracket", {"]"}), ArrayNode(rl.node), token.Location)

parseArrayExpression(p, token) ==
    arrayNode(arrayLoop(R(expect(p, "Bracket", {"["}), <<>>)), token)

\* the result of the map loop: the pairs and abort, which stands for
\* "return nil"
MR(p, nodes, abort) == R(p, [nodes |-> nodes, abort |-> abort])

\* the pair of a map entry, after its value was parsed
mapValue(key, rv, nodes, token) ==
    LET rp == createNode(rv.p, PairNode(key, rv.node), token.Location)
    IN  IF IsNull(rp.node) THEN MR(rp.p, nodes, TRUE)
        ELSE mapLoop(appendTo(nodes, rp), token)

\* a map entry after its key rk was parsed
mapKey(rk, literalKey, nodes, token) ==
    IF literalKey /\ IsNull(rk.node) THEN MR(rk.p, nodes, TRUE)
    ELSE mapValue(rk.node,
                  call("parseExpression", expect(IF literalKey THEN next(rk.p) ELSE rk.p,
                                         "Operator", {":"}), 0),
                  nodes, token)

\* rl.node is the slice nodes
mapLoop(rl, token) ==
    IF rl.p.panic \/ ~(~Is(rl.p.current, "Bracket", {"}"}) /\ rl.p.err.isnil)
    THEN MR(rl.p, rl.node, rl.p.panic)
    ELSE
    LET p1 == IF Len(rl.node) > 0 THEN expect(rl.p, "Operator", {","})
              ELSE rl.p
        p2 == IF Len(rl.node) > 0 /\ Is(p1.current, "Operator", {","})
              THEN error(p1, MsgUnexpectedToken) ELSE p1
    IN  IF Len(rl.node) > 0 /\ Is(p1.current, "Bracket", {"}"})
        THEN MR(p1, rl.node, FALSE)
        ELSE IF p2.current.Kind \in {"Number", "String", "Identifier"}
        THEN mapKey(createNode(p2, StringNode(p2.current.Value),
                               p2.current.Location),
                    TRUE, rl.node, token)
        ELSE IF Is(p2.current, "Bracket", {"("})
        THEN mapKey(call("parseExpression", p2, 0), FALSE, rl.node, token)
        ELSE mapKey(R(error(p2, "a map key must be a quoted string"), Null),
                    FALSE, rl.node, token)

mapNode(rl, token) ==
    IF rl.node.abort THEN R(rl.p, Null)
    ELSE createNode(expect(rl.p, "Bracket", {"}"}), MapNode(rl.node.nodes),
                    token.Location)

parseMapExpression(p, token) ==
    mapNode(mapLoop(R(expect(p, "Bracket", {"{"}), <<>>), token), token)

\* a step of the postfix loop: the parser, the node, and ret = "return nil"
PR(p, n, ret) == [p |-> p, node |-> n, ret |-> ret]

\* the end of the "." / "?." branch: rc is the member or the method call
memberChain(rc, chained, propertyToken) ==
    LET rch == createNode(rc.p, ChainNode(rc.node), propertyToken.Location)
    IN  IF IsNull(rc.node) THEN PR(rc.p, Null, TRUE)
        ELSE IF chained THEN PR(rch.p, rch.node, IsNull(rch.node))
        ELSE PR(rc.p, rc.node, FALSE)

\* the "." / "?." branch of parsePostfixExpression; p1 is the parser after
\* the operator was skipped
postfixMember(p1, node, postfixToken) ==
    LET propertyToken == p1.current
        p3 == IF propertyToken.Kind # "Identifier"
                 /\ (propertyToken.Kind # "Operator"
                     \/ ~IsValidIdentifier(propertyToken.Value))
              THEN error(next(p1), "expected name") ELSE next(p1)
        rprop == createNode(p3, StringNode(propertyToken.Value),
                            propertyToken.Location)
        isChain == node.type = "ChainNode"
        optional == postfixToken.Value = "?."
        rm == createMemberNode(rprop.p,
                               MemberNode(IF isChain THEN node.Node ELSE node,
                                          rprop.node, optional, FALSE),
                               propertyToken.Location)
    IN  IF IsNull(rprop.node) THEN PR(rprop.p, Null, TRUE)
        ELSE IF IsNull(rm.node) THEN PR(rm.p, Null, TRUE)
        ELSE IF Is(rm.p.current, "Bracket", {"("})
        THEN memberChain(callFunction(propertyToken,
                                      [rm.node EXCEPT !.Method = TRUE],
                                      parseArguments(rm.p, <<>>)),
                         isChain \/ optional, propertyToken)
        ELSE memberChain(rm, isChain \/ optional, propertyToken)

\* the upper bound of a slice: absent when the bracket closes
sliceTo(p) ==
    IF ~Is(p.current, "Bracket", {"]"}) THEN call("parseExpression", p, 0)
    ELSE R(p, Null)

\* the SliceNode node[from:to], after to was parsed
sliceNode(rto, node, from, postfixToken) ==
    LET rs == createNode(rto.p, SliceNode(node, from, rto.node),
                         postfixToken.Location)
    IN  IF IsNull(rs.node) THEN PR(rs.p, Null, TRUE)
        ELSE PR(expect(rs.p, "Bracket", {"]"}), rs.node, FALSE)

\* node[from] or node[from:to], after from was parsed
indexFrom(rfrom, node, postfixToken, optional) ==
    LET rm == createNode(rfrom.p, MemberNode(node, rfrom.node, optional, FALSE),
                         postfixToken.Location)
        rch == createNode(rm.p, ChainNode(rm.node), postfixToken.Location)
    IN  IF Is(rfrom.p.current, "Operator", {":"})
        THEN sliceNode(sliceTo(next(rfrom.p)), node, rfrom.node, postfixToken)
        ELSE IF IsNull(rm.node) THEN PR(rm.p, Null, TRUE)
        ELSE IF optional
             THEN IF IsNull(rch.node) THEN PR(rch.p, Null, TRUE)
                  ELSE PR(expect(rch.p, "Bracket", {"]"}), rch.node, FALSE)
             ELSE PR(expect(rm.p, "Bracket", {"]"}), rm.node, FALSE)

\* the "[" branch of parsePostfixExpression; p is the parser at "["
postfixIndex(p, node, postfixToken, optional) ==
    IF Is(next(p).current, "Operator", {":"})
    THEN sliceNode(sliceTo(next(next(p))), node, Null, postfixToken)
    ELSE indexFrom(call("parseExpression", next(p), 0), node, postfixToken, optional)

\* the end of an iteration of the postfix loop
postfixNext(step) ==
    IF step.ret THEN R(step.p, Null) ELSE postfixLoop(R(step.p, step.node))

\* the loop of parsePostfixExpression; its postfixToken is r.p.current
postfixLoop(r) ==
    IF r.p.panic
       \/ ~((Is(r.p.current, "Operator", {}) \/ Is(r.p.current, "Bracket", {}))
            /\ r.p.err.isnil)
    THEN r
    ELSE
    LET postfixToken == r.p.current
        p1 == next(r.p)
    IN  IF postfixToken.Value \in {".", "?."}
        THEN IF postfixToken.Value = "?." /\ Is(p1.current, "Bracket", {"["})
             THEN postfixNext(postfixIndex(p1, r.node, p1.current, TRUE))
             ELSE postfixNext(postfixMember(p1, r.node, postfixToken))
        ELSE IF postfixToken.Value = "["
        THEN postfixNext(postfixIndex(r.p, r.node, postfixToken, FALSE))
        ELSE r

parsePostfixExpression(r) ==
    IF r.p.panic THEN R(r.p, Null) ELSE postfixLoop(r)

\* a comparison of the chain, after its right operand rcmp was parsed
comparisonNode(rcmp, left, token, precedence, rootNode) ==
    LET rn == createNode(rcmp.p, BinaryNode(token.Value, left, rcmp.node),
                         token.Location)
        rr == IF IsNull(rootNode) THEN rn
              ELSE createNode(rn.p, BinaryNode("&&", rootNode, rn.node),
                              token.Location)
        token1 == rr.p.current
    IN  IF IsNull(rn.node) THEN R(rn.p, Null)
        ELSE IF IsNull(rr.node) THEN R(rr.p, Null)
        ELSE IF ~(Is(token1, "Operator", {}) /\ IsComparison(token1.Value)
                  /\ rr.p.err.isnil)
        THEN rr
        ELSE comparisonLoop(next(rr.p), rcmp.node, token1, precedence, rr.node)

comparisonLoop(p, left, token, precedence, rootNode) ==
    comparisonNode(call("parseExpression", p, precedence + 1), left, token, precedence,
                   rootNode)

parseComparison(p, left, token, precedence) ==
    IF p.panic THEN R(p, Null)
    ELSE comparisonLoop(p, left, token, precedence, Null)

\* the methods through which the parser recurses; a call of one of them is
\* written call(method, arguments), with 0 for an argument it does not have
call(method, a, b) ==
    CASE method = "parseExpression" -> parseExpression(a, b)
      [] method = "parseSequenceExpression" -> parseSequenceExpression(a)
      [] method = "parsePostfixExpression" -> parsePostfixExpression(a)

\* the end of ParseWithConfig: the tree, the error and whether the call
\* panicked instead of returning
parseEnd(r) ==
    LET p1 == IF ~Is(r.p.current, "EOF", {}) THEN error(r.p, MsgUnexpectedToken)
              ELSE r.p
    IN  [tree |-> r.node, err |-> p1.err, panic |-> p1.panic,
         nodeCount |-> p1.nodeCount, built |-> p1.built]

NewParser(tokens, config) ==
    [tokens |-> tokens, current |-> tokens[1], pos |-> 0, err |-> NoError,
     config |-> config, depth |-> 0, nodeCount |-> 0, built |-> 0,
     panic |-> FALSE]

\* a lexed source is parsed
\* ParseWithConfig from the token stream on
parseTokens(tokens, config) ==
    parseEnd(call("parseSequenceExpression", NewParser(tokens, config), 0))

ParseWithConfig(src, config) == parseTokens(Lex(src), config)

(***************************************************************************)
(* Sources, as sequences of lexemes.                                       *)
(***************************************************************************)
Lexeme(kind, value) == [Kind |-> kind, Value |-> value]

Id(v) == Lexeme("Identifier", v)
Num(v) == Lexeme("Number", v)
Str(v) == Lexeme("String", v)
Op(v) == Lexeme("Operator", v)
Br(v) == Lexeme("Bracket", v)

(***************************************************************************)
(* Natures and the type checker.  A nature carries the reflect.Kind of its *)
(* Type ("invalid" when Type is nil).  No Env, function or builtin is      *)
(* configured and Strict is off, so every free identifier is unknown.      *)
(***************************************************************************)
unknown == UnknownNature
nilNature == Nature("invalid", TRUE, NoNature, NoNature)
boolNature == Nature("bool", FALSE, NoNature, NoNature)
integerNature == Nature("int", FALSE, NoNature, NoNature)
stringNature == Nature("string", FALSE, NoNature, NoNature)
mapNature == Nature("map", FALSE, NoNature, NoNature)
floatNature == Nature("float64", FALSE, NoNature, NoNature)
anyNature == Nature("interface", FALSE, NoNature, NoNature)
arrayNature == Nature("slice", FALSE, NoNature, NoNature)

arrayOf(nt) == Nature("slice", FALSE, nt, NoNature)

\* the nature of a struct type: its fields, in the order of declaration,
\* each with its name and the nature of its type
structNature(fields) ==
    [Kind |-> "struct", Nil |-> FALSE, ArrayOf |-> NoNature,
     PredicateOut |-> NoNature, Fields |-> fields]

\* Nature.Get and Nature.FieldByName on a struct: the position of the field
\* of that name (its FieldIndex is one less), 0 when there is none
fieldByName(nt, name) ==
    IF nt.Kind # "struct" THEN 0
    ELSE LET S == {i \in 1..Len(nt.Fields) : nt.Fields[i].name = name}
         IN  IF S = {} THEN 0 ELSE CHOOSE i \in S : TRUE

predicateNature(out) == Nature("func", FALSE, NoNature, out)

\* the last cases of checker.MemberNode: the field of a struct base named by
\* the property, or the error of a base without that field
structField(base, node) ==
    LET named == node.Property.type = "StringNode"
        f == IF named THEN fieldByName(base, node.Property.Value) ELSE 0
    IN  IF base.Kind = "struct" /\ f > 0
        THEN [ok |-> TRUE, nt |-> base.Fields[f].nature, msg |-> ""]
        ELSE [ok |-> FALSE, nt |-> UnknownNature,
              msg |-> IF named THEN "type has no field"
                      ELSE "type is undefined"]

IsAny(nt) == nt.Kind = "interface"

IsUnknown(nt) == (nt.Kind = "invalid" /\ ~nt.Nil) \/ IsAny(nt)

\* Nature.Elem of an array nature
Elem(nt) ==
    IF nt.Kind = "slice"
    THEN IF nt.ArrayOf.Kind # "<none>" THEN nt.ArrayOf ELSE anyNature
    ELSE unknown

AssignableTo(n, nt) ==
    IF n.Nil /\ IsAny(nt) THEN TRUE
    ELSE IF n.Kind = "invalid" \/ nt.Kind = "invalid" THEN FALSE
    ELSE n.Kind = nt.Kind \/ nt.Kind = "interface"

isNil(nt) == nt.Nil
isBool(nt) == nt.Kind = "bool"
isInteger(nt) == nt.Kind = "int"
isNumber(nt) == nt.Kind = "int"
isString(nt) == nt.Kind = "string"
isArray(nt) == nt.Kind = "slice"
isMap(nt) == nt.Kind = "map"
isFunc(nt) == nt.Kind = "func"

\* or(l, r, fns...): kinds is the set of kinds the fns accept
or(l, r, kinds) ==
    \/ IsUnknown(l) /\ IsUnknown(r)
    \/ IsUnknown(l) /\ r.Kind \in kinds
    \/ l.Kind \in kinds /\ IsUnknown(r)

isComparable(l, r) ==
    \/ IsUnknown(l) \/ IsUnknown(r)
    \/ isNil(l) \/ isNil(r)
    \/ isNumber(l) /\ isNumber(r)
    \/ isArray(l) /\ isArray(r)
    \/ AssignableTo(l, r)

\* the result of checker.visit: the checker, the annotated node, its nature
V(v, n, nt) == [v |-> v, node |-> n, nt |-> nt]

\* checker.error: only the first error is kept; the result is unknown
checkerError(v, node, msg) ==
    IF v.err.isnil THEN [v EXCEPT !.err = Error(LocationOf(node), msg)] ELSE v

\* checker.lookupVariable: the index of the innermost scope of name, or 0
checkerLookup(v, name) ==
    LET S == {i \in 1..Len(v.varScopes) : v.varScopes[i].name = name}
    IN  IF S = {} THEN 0 ELSE CHOOSE i \in S : \A j \in S : j <= i

\* the nature of a binary operation and whether it is ill-typed
binaryNature(operator, l, r) ==
    LET ok(nt) == [ok |-> TRUE, nt |-> nt]
        bad == [ok |-> FALSE, nt |-> unknown]
    IN  CASE operator \in {"==", "!="} ->
                IF isComparable(l, r) THEN ok(boolNature) ELSE bad
          [] operator \in {"or", "||", "and", "&&"} ->
                IF (isBool(l) /\ isBool(r)) \/ or(l, r, {"bool"})
                THEN ok(boolNature) ELSE bad
          [] operator \in {"<", ">", ">=", "<="} ->
                IF (isNumber(l) /\ isNumber(r)) \/ (isString(l) /\ isString(r))
                   \/ or(l, r, {"int", "string"})
                THEN ok(boolNature) ELSE bad
          [] operator \in {"-", "*"} ->
                IF isNumber(l) /\ isNumber(r) THEN ok(integerNature)
                ELSE IF or(l, r, {"int"}) THEN ok(unknown) ELSE bad
          [] operator = "+" ->
                IF isNumber(l) /\ isNumber(r) THEN ok(integerNature)
                ELSE IF isString(l) /\ isString(r) THEN ok(stringNature)
                ELSE IF or(l, r, {"int", "string"}) THEN ok(unknown) ELSE bad
          [] operator \in {"/", "**", "^"} ->
                IF (isNumber(l) /\ isNumber(r)) \/ or(l, r, {"int"})
                THEN ok(floatNature) ELSE bad
          [] operator = "%" ->
                IF (isInteger(l) /\ isInteger(r)) \/ or(l, r, {"int"})
                THEN ok(integerNature) ELSE bad
          [] operator = "in" ->
                IF isMap(r)
                THEN IF ~IsUnknown(l) /\ ~AssignableTo(l, stringNature) THEN bad
                     ELSE ok(boolNature)
                ELSE IF isArray(r)
                THEN IF ~isComparable(l, Elem(r)) THEN bad ELSE ok(boolNature)
                ELSE IF IsUnknown(l) /\ r.Kind \in {"string", "slice", "map"}
                THEN ok(boolNature)
                ELSE IF IsUnknown(r) THEN ok(boolNature) ELSE bad
          [] operator \in {"matches", "contains", "startsWith", "endsWith"} ->
                IF (isString(l) /\ isString(r)) \/ or(l, r, {"string"})
                THEN ok(boolNature) ELSE bad
          [] operator = ".." ->
                IF (isInteger(l) /\ isInteger(r)) \/ or(l, r, {"int"})
                THEN ok(arrayOf(integerNature)) ELSE bad
          [] operator = "??" ->
                IF isNil(l) /\ ~isNil(r) THEN ok(r)
                ELSE IF ~isNil(l) /\ isNil(r) THEN ok(l)
                ELSE IF isNil(l) /\ isNil(r) THEN ok(nilNature)
                ELSE IF AssignableTo(r, l) THEN ok(l)
                ELSE ok(unknown)
          [] OTHER -> bad

RECURSIVE visit(_, _)
RECURSIVE visitList(_, _, _, _)
RECURSIVE visitArray(_, _, _, _, _)

\* visits nodes[i..] in order; the result's node is the list of annotated
\* nodes and nt the list of their natures
visitList(v, nodes, i, acc) ==
    IF i > Len(nodes) THEN V(v, acc.nodes, acc.nts)
    ELSE LET r == visit(v, nodes[i])
         IN  visitList(r.v, nodes, i + 1,
                       [nodes |-> Append(acc.nodes, r.node),
                        nts |-> Append(acc.nts, r.nt)])

\* the loop of checker.ArrayNode; nt is [prev, same]
visitArray(v, nodes, i, out, st) ==
    IF i > Len(nodes) THEN V(v, out, st)
    ELSE LET r == visit(v, nodes[i])
             same == IF i > 1 /\ r.nt.Kind # st.prev.Kind THEN FALSE ELSE st.same
         IN  visitArray(r.v, nodes, i + 1, Append(out, r.node),
                        [prev |-> r.nt, same |-> same])

\* a function of the function table: its name and its Types, each with the
\* kinds of its parameters and of its result
Function(name, types) == [Name |-> name, Types |-> types]

FuncType(ins, outKind) == [In |-> ins, Out |-> outKind]

kindNature(kind) == Nature(kind, FALSE, NoNature, NoNature)

\* Nature{Type: fn.Type(), Func: fn}: Function.Type is the first of Types
funcNature(fn) ==
    [Kind |-> "func", Nil |-> FALSE, ArrayOf |-> NoNature,
     PredicateOut |-> NoNature, Func |-> fn]

\* v.config.Functions[name]: the index of the function, or 0
functionsGet(functions, name) ==
    LET S == {i \in 1..Len(functions) : functions[i].Name = name}
    IN  IF S = {} THEN 0 ELSE CHOOSE i \in S : TRUE

\* a result of checkArguments: the annotated arguments, the nature of the
\* result and the error that is returned (not recorded)
CA(v, nodes, nt, e) == [v |-> v, nodes |-> nodes, nt |-> nt, err |-> e]

RECURSIVE checkArgumentsFrom(_, _, _, _)
\* the loop of checkArguments over arguments[i..], for a function type that
\* is neither variadic nor a method, over parameters that are no floats
checkArgumentsFrom(v, t, arguments, i) ==
    IF i > Len(arguments) THEN CA(v, arguments, kindNature(t.Out), NoError)
    ELSE LET r == visit(v, arguments[i])
             args == [arguments EXCEPT ![i] = r.node]
             inNature == kindNature(t.In[i])
         IN  IF isNil(r.nt)
             THEN IF inNature.Kind \in {"ptr", "interface"}
                  THEN checkArgumentsFrom(r.v, t, args, i + 1)
                  ELSE CA(r.v, args, unknown,
                          Error(LocationOf(r.node), "cannot use nil as argument"))
             ELSE IF ~AssignableTo(r.nt, inNature) /\ ~IsUnknown(r.nt)
             THEN CA(r.v, args, unknown,
                     Error(LocationOf(r.node), "cannot use as argument"))
             ELSE checkArgumentsFrom(r.v, t, args, i + 1)

checkArguments(v, t, arguments, node) ==
    IF Len(arguments) # Len(t.In)
    THEN LET r == visitList(v, arguments, 1, [nodes |-> <<>>, nts |-> <<>>])
         IN  CA(r.v, r.node, kindNature(t.Out),
                Error(LocationOf(node),
                      IF Len(arguments) > Len(t.In) THEN "too many arguments"
                      ELSE "not enough arguments"))
    ELSE checkArgumentsFrom(v, t, arguments, 1)

RECURSIVE checkFunctionFrom(_, _, _, _, _)
\* the loop of checkFunction over f.Types[k..]; the first type the
\* arguments fit gives the result, and else the last error is recorded
checkFunctionFrom(v, f, node, k, lastErr) ==
    IF k > Len(f.Types)
    THEN IF ~lastErr.isnil
         THEN V(IF v.err.isnil THEN [v EXCEPT !.err = lastErr] ELSE v, node,
                unknown)
         ELSE V(checkerError(v, node, "no matching overload"), node, unknown)
    ELSE LET r == checkArguments(v, f.Types[k], node.Arguments, node)
             n1 == [node EXCEPT !.Arguments = r.nodes]
         IN  IF ~r.err.isnil THEN checkFunctionFrom(r.v, f, n1, k + 1, r.err)
             ELSE V(r.v, n1, r.nt)

\* checker.begin / checker.end
begin(v, collection, vars) ==
    [v EXCEPT !.predicateScopes =
        Append(@, [collection |-> collection, vars |-> vars])]

end(v) == [v EXCEPT !.predicateScopes = SubSeq(@, 1, Len(@) - 1)]

\* the predicate builtins of checker.BuiltinNode
visitBuiltin(v, node) ==
    LET name == node.Name
        args == node.Arguments
        rc == visit(v, args[1])
        collection == rc.nt
        vars == IF name = "map" THEN <<[name |-> "index", nt |-> integerNature]>>
                ELSE IF name = "reduce"
                THEN <<[name |-> "index", nt |-> integerNature],
                       [name |-> "acc", nt |-> unknown]>>
                ELSE <<>>
        hasPred == Len(args) >= 2
        rp == IF hasPred THEN visit(begin(rc.v, collection, vars), args[2])
              ELSE V(rc.v, Null, unknown)
        vp == IF hasPred THEN end(rp.v) ELSE rp.v
        third == Len(args) = 3 /\ name \in {"sortBy", "reduce"}
        r3 == IF third THEN visit(vp, args[3]) ELSE V(vp, Null, unknown)
        newArgs == IF third THEN <<rc.node, rp.node, r3.node>>
                   ELSE IF hasPred THEN <<rc.node, rp.node>> ELSE <<rc.node>>
        v3 == r3.v
        predicate == rp.nt
        out == predicate.PredicateOut
        \* NumOut() == 1: a predicate whose body is nil has no out param
        funcOK == isFunc(predicate) /\ ~isNil(out)
        with(nt) == V(v3, [node EXCEPT !.Arguments = newArgs], nt)
        fail(at, msg) ==
            V(checkerError(v3, at, msg), [node EXCEPT !.Arguments = newArgs],
              unknown)
        boolOut == isBool(out) \/ IsUnknown(out)
    IN  IF ~isArray(collection) /\ ~IsUnknown(collection)
        THEN V(checkerError(rc.v, rc.node, "builtin takes only array"),
               [node EXCEPT !.Arguments = <<rc.node>> \o SubSeq(args, 2, Len(args))],
               unknown)
        ELSE IF name = "count" /\ Len(args) = 1 THEN with(integerNature)
        ELSE IF name = "sum" /\ Len(args) # 2
        THEN with(IF IsUnknown(collection) THEN unknown ELSE Elem(collection))
        ELSE IF ~funcOK
        THEN fail(rp.node, "predicate should has one input and one output param")
        ELSE IF name \in {"all", "none", "any", "one", "filter", "count", "find",
                          "findLast", "findIndex", "findLastIndex"}
                /\ ~boolOut
        THEN fail(rp.node, "predicate should return boolean")
        ELSE CASE name \in {"all", "none", "any", "one"} -> with(boolNature)
               [] name = "filter" ->
                    with(IF IsUnknown(collection) THEN arrayNature
                         ELSE arrayOf(Elem(collection)))
               [] name = "map" -> with(arrayOf(out))
               [] name \in {"count", "findIndex", "findLastIndex"} ->
                    with(integerNature)
               [] name = "sum" -> with(IF IsUnknown(out) THEN anyNature ELSE out)
               [] name \in {"find", "findLast"} ->
                    with(IF IsUnknown(collection) THEN unknown
                         ELSE Elem(collection))
               [] name = "groupBy" -> with(mapNature)
               [] name = "sortBy" -> with(collection)
               [] name = "reduce" -> with(out)

visit(v, node) ==
    LET set(r) == V(r.v, [r.node EXCEPT !.nature = r.nt], r.nt)
        leaf(nt) == set(V(v, node, nt))
        fail(v1, n, at, msg) == set(V(checkerError(v1, at, msg), n, unknown))
    IN  CASE node.type = "NilNode" -> leaf(nilNature)
          [] node.type = "IdentifierNode" ->
               \* ident: the fields of Env, then the function table
               LET i == checkerLookup(v, node.Value)
                   k == functionsGet(v.functions, node.Value)
                   f == fieldByName(v.env, node.Value)
               IN  IF i > 0 THEN leaf(v.varScopes[i].nature)
                   ELSE IF node.Value = "$env" THEN leaf(unknown)
                   ELSE IF f > 0 THEN leaf(v.env.Fields[f].nature)
                   ELSE IF k > 0 THEN leaf(funcNature(v.functions[k]))
                   ELSE leaf(unknown)
          [] node.type = "IntegerNode" -> leaf(integerNature)
          [] node.type = "BoolNode" -> leaf(boolNature)
          [] node.type = "StringNode" -> leaf(stringNature)
          [] node.type = "UnaryNode" ->
               LET r == visit(v, node.Node)
                   n1 == [node EXCEPT !.Node = r.node]
               IN  IF node.Operator \in {"!", "not"}
                   THEN IF isBool(r.nt) \/ IsUnknown(r.nt)
                        THEN set(V(r.v, n1, boolNature))
                        ELSE fail(r.v, n1, n1, "invalid operation")
                   ELSE IF isNumber(r.nt) THEN set(V(r.v, n1, r.nt))
                        ELSE IF IsUnknown(r.nt) THEN set(V(r.v, n1, unknown))
                        ELSE fail(r.v, n1, n1, "invalid operation")
          [] node.type = "BinaryNode" ->
               LET l == visit(v, node.Left)
                   r == visit(l.v, node.Right)
                   n1 == [node EXCEPT !.Left = l.node, !.Right = r.node]
                   b == binaryNature(node.Operator, l.nt, r.nt)
               IN  IF b.ok THEN set(V(r.v, n1, b.nt))
                   ELSE fail(r.v, n1, n1, "invalid operation")
          [] node.type = "ChainNode" ->
               LET r == visit(v, node.Node)
               IN  set(V(r.v, [node EXCEPT !.Node = r.node], r.nt))
          [] node.type = "MemberNode" ->
               LET base == visit(v, node.Node)
                   prop == visit(base.v, node.Property)
                   n1 == [node EXCEPT !.Node = base.node, !.Property = prop.node]
                   named == node.Property.type = "StringNode"
                   selected(v1, n, field) ==
                       IF field.ok THEN set(V(v1, n, field.nt))
                       ELSE fail(v1, n, n, field.msg)
               IN  IF node.Node.type = "IdentifierNode" /\ node.Node.Value = "$env"
                   THEN leaf(unknown)
                   ELSE IF IsUnknown(base.nt) THEN set(V(prop.v, n1, unknown))
                   ELSE IF named /\ isNil(base.nt)
                   THEN fail(prop.v, n1, n1, "type nil has no field")
                   ELSE IF base.nt.Kind = "map"
                   THEN IF ~AssignableTo(prop.nt, stringNature)
                           /\ ~IsUnknown(prop.nt)
                        THEN fail(prop.v, n1, prop.node, "cannot use to get an element")
                        ELSE set(V(prop.v, n1, anyNature))
                   ELSE IF base.nt.Kind = "slice"
                   THEN IF ~isInteger(prop.nt) /\ ~IsUnknown(prop.nt)
                        THEN fail(prop.v, n1, prop.node,
                                  "array elements can only be selected using an integer")
                        ELSE set(V(prop.v, n1, Elem(base.nt)))
                   ELSE selected(prop.v, n1, structField(base.nt, node))
          [] node.type = "CallNode" ->
               \* functionReturnType: only a callee of the function table
               \* has a function nature, and the arguments of a call whose
               \* callee is unknown are not visited; a type that was set on
               \* the node (by a patcher) is used instead of the result
               LET callee == visit(v, node.Callee)
                   n1 == [node EXCEPT !.Callee = callee.node]
                   typed(r) ==
                       IF node.nature.Kind # "invalid" /\ ~IsAny(node.nature)
                       THEN set(V(r.v, r.node, node.nature))
                       ELSE set(r)
                   failed(msg) == V(checkerError(callee.v, n1, msg), n1, unknown)
               IN  IF callee.nt.Kind = "func"
                   THEN typed(checkFunctionFrom(callee.v, callee.nt.Func, n1, 1,
                                                NoError))
                   ELSE IF IsUnknown(callee.nt) THEN typed(V(callee.v, n1, unknown))
                   ELSE IF isNil(callee.nt)
                   THEN typed(failed("cannot call nil as function"))
                   ELSE typed(failed("is not callable"))
          [] node.type = "BuiltinNode" -> set(visitBuiltin(v, node))
          [] node.type = "PredicateNode" ->
               LET r == visit(v, node.Node)
               IN  set(V(r.v, [node EXCEPT !.Node = r.node], predicateNature(r.nt)))
          [] node.type = "PointerNode" ->
               LET n == Len(v.predicateScopes)
                   scope == v.predicateScopes[n]
                   S == {i \in 1..Len(scope.vars) : scope.vars[i].name = node.Name}
                   resolved(nt) == set(V(v, [node EXCEPT !.frame = n], nt))
               IN  IF n = 0
                   THEN fail(v, node, node, "cannot use pointer accessor outside predicate")
                   ELSE IF node.Name = ""
                   THEN IF IsUnknown(scope.collection) THEN resolved(unknown)
                        ELSE IF scope.collection.Kind = "slice"
                        THEN resolved(Elem(scope.collection))
                        ELSE fail(v, node, node, "cannot use as array")
                   ELSE IF S # {}
                   THEN resolved(scope.vars[CHOOSE i \in S : TRUE].nt)
                   ELSE fail(v, node, node, "unknown pointer")
          [] node.type = "VariableDeclaratorNode" ->
               LET rv == visit(v, node.Value)
                   v1 == [rv.v EXCEPT !.varScopes =
                             Append(@, [name |-> node.Name, nature |-> rv.nt])]
                   re == visit(v1, node.Expr)
                   v2 == [re.v EXCEPT !.varScopes = SubSeq(@, 1, Len(@) - 1)]
               IN  IF functionsGet(v.functions, node.Name) > 0
                   THEN fail(v, node, node, "cannot redeclare function")
                   ELSE IF checkerLookup(v, node.Name) > 0
                   THEN fail(v, node, node, "cannot redeclare variable")
                   ELSE set(V(v2, [node EXCEPT !.Value = rv.node, !.Expr = re.node],
                              re.nt))
          [] node.type = "SequenceNode" ->
               LET r == visitList(v, node.Nodes, 1, [nodes |-> <<>>, nts |-> <<>>])
               IN  IF Len(node.Nodes) = 0
                   THEN fail(v, node, node, "empty sequence expression")
                   ELSE set(V(r.v, [node EXCEPT !.Nodes = r.node],
                              r.nt[Len(r.nt)]))
          [] node.type = "ConditionalNode" ->
               LET c == visit(v, node.Cond)
                   t1 == visit(c.v, node.Exp1)
                   t2 == visit(t1.v, node.Exp2)
                   n1 == [node EXCEPT !.Cond = c.node, !.Exp1 = t1.node,
                                      !.Exp2 = t2.node]
                   nt == IF isNil(t1.nt) /\ ~isNil(t2.nt) THEN t2.nt
                         ELSE IF ~isNil(t1.nt) /\ isNil(t2.nt) THEN t1.nt
                         ELSE IF isNil(t1.nt) /\ isNil(t2.nt) THEN nilNature
                         ELSE IF AssignableTo(t1.nt, t2.nt) THEN t1.nt
                         ELSE unknown
               IN  IF ~isBool(c.nt) /\ ~IsUnknown(c.nt)
                   THEN fail(c.v, [node EXCEPT !.Cond = c.node], c.node,
                             "non-bool expression used as condition")
                   ELSE set(V(t2.v, n1, nt))
          [] node.type = "ArrayNode" ->
               LET r == visitArray(v, node.Nodes, 1, <<>>,
                                   [prev |-> unknown, same |-> TRUE])
               IN  set(V(r.v, [node EXCEPT !.Nodes = r.node],
                         IF r.nt.same THEN arrayOf(r.nt.prev) ELSE arrayNature))
          [] node.type = "MapNode" ->
               LET r == visitList(v, node.Pairs, 1, [nodes |-> <<>>, nts |-> <<>>])
               IN  set(V(r.v, [node EXCEPT !.Pairs = r.node], mapNature))
          [] node.type = "PairNode" ->
               LET k == visit(v, node.Key)
                   val == visit(k.v, node.Value)
               IN  set(V(val.v, [node EXCEPT !.Key = k.node, !.Value = val.node],
                         nilNature))

MsgExpected == "expected a number"

\* checker.Check: the annotated tree and the first type error, or the error
\* of a nature that is not the number config.Expect asks for
Check(tree, config) ==
    LET v0 == [err |-> NoError, predicateScopes |-> <<>>, varScopes |-> <<>>,
               functions |-> config.Functions, env |-> config.Env]
        r == visit(v0, tree)
    IN  [tree |-> r.node,
         err |-> IF ~r.v.err.isnil THEN r.v.err
                 ELSE IF config.Expect # "invalid" /\ ~isNumber(r.nt)
                 THEN Error(ZeroLocation, MsgExpected)
                 ELSE NoError]

(***************************************************************************)
(* Patchers.  A visitor is a record with the fields of the Go struct and   *)
(* kind, its dynamic type; ast.Walk visits children first and rewrites     *)
(* through the pointer it is given.                                        *)
(***************************************************************************)
\* a visit's result: the node now behind the pointer, and the visitor
VR(node, v) == [node |-> node, v |-> v]

\* ast.Patch after SetType: the new node takes the Type and the Location of
\* the node it replaces
patchCopyType(node, newNode) ==
    [newNode EXCEPT !.nature = [UnknownNature EXCEPT !.Kind = node.nature.Kind],
                    !.loc = node.loc, !.located = TRUE]

inRangeVisit(node) ==
    IF /\ node.type = "BinaryNode"
       /\ node.Operator = "in"
       /\ node.Left.nature.Kind = "int"
       /\ node.Right.type = "BinaryNode"
       /\ node.Right.Operator = ".."
       /\ node.Right.Left.type = "IntegerNode"
       /\ node.Right.Right.type = "IntegerNode"
    THEN patchCopyType(node,
             BinaryNode("and",
                        BinaryNode(">=", node.Left, node.Right.Left),
                        BinaryNode("<=", node.Left, node.Right.Right)))
    ELSE node

\* a fold that leaves the rest of the array to another sum
sumArrayFoldLazy(nodes) ==
    IF Len(nodes) > 2
    THEN BinaryNode("+", nodes[1], BuiltinNode("sum", <<ArrayNode(Tail(nodes))>>))
    ELSE BinaryNode("+", nodes[1], nodes[2])

RECURSIVE sumArrayFold(_)
sumArrayFold(nodes) ==
    IF Len(nodes) > 2 THEN BinaryNode("+", nodes[1], sumArrayFold(Tail(nodes)))
    ELSE BinaryNode("+", nodes[1], nodes[2])

sumArrayVisit(node) ==
    IF /\ node.type = "BuiltinNode"
       /\ node.Name = "sum"
       /\ Len(node.Arguments) = 1
       /\ node.Arguments[1].type = "ArrayNode"
       /\ Len(node.Arguments[1].Nodes) >= 2
    THEN patchCopyType(node, sumArrayFold(node.Arguments[1].Nodes))
    ELSE node

sumMapVisit(node) ==
    IF /\ node.type = "BuiltinNode"
       /\ node.Name = "sum"
       /\ Len(node.Arguments) = 1
       /\ node.Arguments[1].type = "BuiltinNode"
       /\ node.Arguments[1].Name = "map"
       /\ Len(node.Arguments[1].Arguments) = 2
    THEN patchCopyType(node, BuiltinNode("sum", node.Arguments[1].Arguments))
    ELSE node

\* ast.Patch: the new node takes the Location of the node it replaces
Patch(node, newNode) == [newNode EXCEPT !.loc = node.loc, !.located = TRUE]

\* a patcher.OperatorOverloading after construction
OperatorOverloading(operator, overloads, functions) ==
    [kind |-> "OperatorOverloading", Operator |-> operator,
     Overloads |-> overloads, Functions |-> functions, applied |-> FALSE]

\* the result of a lookup of an overload
NoOverload == [ok |-> FALSE, ret |-> "invalid", fn |-> ""]

\* l and r are the kinds of the operands' types, "invalid" for no type
checkTypeSuits(t, l, r) ==
    LET firstFit == l = t.In[1] \/ t.In[1] = "interface"
        secondFit == r = t.In[2] \/ t.In[2] = "interface"
    IN  firstFit /\ secondFit

RECURSIVE findSuitableOperatorOverloadInFunctions(_, _, _, _)
\* the loop over p.Overloads[i..]: the first function with a type that suits
findSuitableOperatorOverloadInFunctions(p, l, r, i) ==
    IF i > Len(p.Overloads) THEN NoOverload
    ELSE LET k == functionsGet(p.Functions, p.Overloads[i])
             types == IF k = 0 THEN <<>> ELSE p.Functions[k].Types
             S == {j \in 1..Len(types) : checkTypeSuits(types[j], l, r)}
         IN  IF S = {}
             THEN findSuitableOperatorOverloadInFunctions(p, l, r, i + 1)
             ELSE LET j == CHOOSE x \in S : \A y \in S : x <= y
                  IN  [ok |-> TRUE, ret |-> types[j].Out, fn |-> p.Overloads[i]]

\* there is no Env: findSuitableOperatorOverloadInTypes finds nothing
FindSuitableOperatorOverload(p, l, r) ==
    findSuitableOperatorOverloadInFunctions(p, l, r, 1)

\* OperatorOverloading.Visit
operatorOverloadingVisit(p, node) ==
    IF node.type # "BinaryNode" THEN VR(node, p)
    ELSE IF node.Operator # p.Operator THEN VR(node, p)
    ELSE LET f == FindSuitableOperatorOverload(p, node.Left.nature.Kind,
                                               node.Right.nature.Kind)
             newNode == [CallNode(IdentifierNode(f.fn), <<node.Left, node.Right>>)
                            EXCEPT !.nature = kindNature(f.ret)]
         IN  IF f.ok THEN VR(Patch(node, newNode), [p EXCEPT !.applied = TRUE])
             ELSE VR(node, p)

\* OperatorOverloading.Reset
Reset(p) == [p EXCEPT !.applied = FALSE]

\* OperatorOverloading.ShouldRepeat
ShouldRepeat(p) == p.applied

\* whether the visitor has the methods Reset and ShouldRepeat
Repeatable(v) == v.kind = "OperatorOverloading"

\* v.Visit(node) by the dynamic type of the visitor
Visit(v, node) ==
    CASE v.kind = "OperatorOverloading" -> operatorOverloadingVisit(v, node)
      [] v.kind = "inRange" -> VR(inRangeVisit(node), v)
      [] v.kind = "sumArray" -> VR(sumArrayVisit(node), v)
      [] v.kind = "sumMap" -> VR(sumMapVisit(node), v)

RECURSIVE Walk(_, _)
RECURSIVE WalkNodes(_, _, _)
\* the walk of the children cs[i..]
WalkNodes(cs, v, i) ==
    IF i > Len(cs) THEN [nodes |-> cs, v |-> v]
    ELSE LET r == Walk(cs[i], v)
         IN  WalkNodes([cs EXCEPT ![i] = r.node], r.v, i + 1)

Walk(node, v) ==
    IF IsNull(node) THEN VR(node, v)
    ELSE LET r == WalkNodes(Children(node), v, 1)
         IN  Visit(r.v, WithChildren(node, r.nodes))

\* the default optimizer patchers, in the order optimizer.Optimize runs them
Optimize(node) ==
    Walk(Walk(Walk(node, [kind |-> "inRange"]).node, [kind |-> "sumArray"]).node,
         [kind |-> "sumMap"]).node

(***************************************************************************)
(* Runtime values: a tag and a payload.                                    *)
(***************************************************************************)
Val(t, v) == [t |-> t, v |-> v]

NilVal == Val("nil", 0)
IntVal(n) == Val("int", n)
BoolVal(b) == Val("bool", b)
StrVal(str) == Val("string", str)
\* []any, []int (the result of a range) and map[string]any
ArrVal(elems) == Val("array", elems)
IntsVal(elems) == Val("ints", elems)
MapVal(fields) == Val("map", fields)

IsArr(x) == x.t \in {"array", "ints"}

\* checker.FieldIndex: whether the node is a field of Env or of the struct
\* its base was checked as, with the index and the name of the field
NoField == [ok |-> FALSE, index |-> <<>>, name |-> ""]

fieldAt(f, name) ==
    IF f > 0 THEN [ok |-> TRUE, index |-> <<f - 1>>, name |-> name]
    ELSE NoField

FieldIndex(env, node) ==
    IF node.type = "IdentifierNode"
    THEN fieldAt(fieldByName(env, node.Value), node.Value)
    ELSE IF node.type = "MemberNode" /\ node.Property.type = "StringNode"
    THEN fieldAt(fieldByName(node.Node.nature, node.Property.Value),
                 node.Property.Value)
    ELSE NoField

(***************************************************************************)
(* The compiler.  Instruction addresses are the 1-based positions of the   *)
(* bytecode, which are the values emit returns in the Go code              *)
(* (len(bytecode) after the append).                                       *)
(***************************************************************************)
NewCompiler(config) ==
    [config |-> config, bytecode |-> <<>>, arguments |-> <<>>,
     locations |-> <<>>, constants |-> <<>>, variables |-> 0,
     scopes |-> <<>>, nodes |-> <<>>, chains |-> <<>>, loopBreak |-> 0,
     patches |-> <<>>, pointers |-> {}, added |-> <<>>]

\* an emit that records no Location for the instruction
emitLocationUnlocated(c, loc, op, arg) ==
    [c EXCEPT !.bytecode = Append(@, op),
              !.arguments = Append(@, arg),
              !.patches = Append(@, 0)]

emitLocation(c, loc, op, arg) ==
    [c EXCEPT !.bytecode = Append(@, op),
              !.arguments = Append(@, arg),
              !.locations = Append(@, loc),
              !.patches = Append(@, 0)]

emit(c, op, arg) ==
    emitLocation(c,
                 IF Len(c.nodes) > 0 THEN c.nodes[Len(c.nodes)].loc
                 ELSE ZeroLocation,
                 op, arg)

\* the elements of a slice as fmt prints them, separated by spaces
RECURSIVE Joined(_)
Joined(strs) ==
    IF strs = <<>> THEN ""
    ELSE IF Len(strs) = 1 THEN strs[1]
    ELSE strs[1] \o " " \o Joined(Tail(strs))

\* fmt.Sprintf("%v", field) of a *runtime.Field: &{[0 1] [a b]}
fieldKey(index, path) ==
    "&{[" \o Joined([i \in 1..Len(index) |-> ToString(index[i])])
          \o "] [" \o Joined(path) \o "]}"

\* a *runtime.Field constant.  Key is what addConstant prints for it, kept
\* with the value (the Go struct has no such field)
FieldVal(index, path) ==
    Val("field", [Index |-> index, Path |-> path, Key |-> fieldKey(index, path)])

\* the key of c.constantsIndex for a constant: the constant itself, or the
\* string printed for a field
constantHash(constant) ==
    IF constant.t = "field" THEN StrVal(constant.v.Key) ELSE constant

\* slices and maps are not indexable, a field is
indexable(constant) == constant.t \notin {"array", "ints", "map"}

sameKey(a, b) == a.t = b.t /\ a.v = b.v

\* the index (0-based) addConstant returns: the entry of c.constantsIndex
\* under the key of the constant, which is the first constant added under
\* that key, or the end of c.constants
firstOf(S, none) == IF S = {} THEN none ELSE CHOOSE i \in S : \A j \in S : i <= j

constantIndex(c, constant) ==
    firstOf({i \in 1..Len(c.constants) :
                /\ indexable(c.constants[i])
                /\ sameKey(constantHash(c.constants[i]), constantHash(constant))},
            Len(c.constants) + 1) - 1

\* the constant appended unless index p is that of an earlier one; added
\* records every call with the index returned for it (a record kept for the
\* analysis, the Go compiler has no such field)
addConstantAt(c, constant, p) ==
    [c EXCEPT !.added = Append(@, [constant |-> constant, index |-> p]),
              !.constants = IF p < Len(@) THEN @ ELSE Append(@, constant)]

addConstant(c, constant) == addConstantAt(c, constant, constantIndex(c, constant))

\* c.emitLocation(loc, op, c.addConstant(field))
emitField(c, loc, op, field) ==
    emitLocation(addConstant(c, field), loc, op, constantIndex(c, field))

emitPush(c, value) ==
    emit(addConstant(c, value), "OpPush", constantIndex(c, value))

\* a patch that leaves the placeholder in place
patchJumpSkipped(c, ph) == c

\* patches[ph] counts the patches of the instruction at ph (a record kept
\* for the analysis, the Go compiler has no such field)
patchJump(c, ph) ==
    [c EXCEPT !.arguments[ph] = Len(c.bytecode) - ph, !.patches[ph] = @ + 1]

calcBackwardJump(c, to) == Len(c.bytecode) + 1 - to

\* node.Type().Kind(): the Type of a node of unknown nature is interface{}
typeKind(node) ==
    IF node.nature.Kind = "invalid" THEN "interface" ELSE node.nature.Kind

derefInNeeded(c, node) ==
    IF node.nature.Nil THEN c
    ELSE IF typeKind(node) \in {"ptr", "interface"} THEN emit(c, "OpDeref", 0)
    ELSE c

\* compiler.lookupVariable: the slot of the innermost scope of name, or -1
lookupVariable(c, name) ==
    LET S == {i \in 1..Len(c.scopes) : c.scopes[i].variableName = name}
    IN  IF S = {} THEN -1
        ELSE c.scopes[CHOOSE i \in S : \A j \in S : j <= i].index

\* the end of emitCond: c ends with the OpJump over the OpPop, noop is the
\* OpJumpIfFalse before the body
condEnd(c, noop) ==
    patchJump(emit(patchJump(c, noop), "OpPop", 0), Len(c.bytecode))

emitCond(c, body(_)) ==
    condEnd(emit(body(emit(emit(c, "OpJumpIfFalse", placeholder), "OpPop", 0)),
                 "OpJump", placeholder),
            Len(c.bytecode) + 1)

\* the end of a loop: the jump back to begin0, and the patch of the jump at
\* end0 that leaves the loop
loopEnd(c, begin0, end0) ==
    patchJump(emit(c, "OpJumpBackward", calcBackwardJump(c, begin0)), end0)

emitLoop(c, body(_)) ==
    loopEnd(emit(body(emit(c, "OpJumpIfEnd", placeholder)),
                 "OpIncrementIndex", 0),
            Len(c.bytecode), Len(c.bytecode) + 1)

\* emitLoopBackwards from its begin: c ends with the OpSetIndex
loopBackwardsFrom(c, body(_)) ==
    loopEnd(emit(body(emit(emit(emit(emit(c, "OpGetIndex", 0), "OpInt", 0),
                                "OpMoreOrEqual", 0),
                           "OpJumpIfFalse", placeholder)),
                 "OpDecrementIndex", 0),
            Len(c.bytecode), Len(c.bytecode) + 4)

emitLoopBackwards(c, body(_)) ==
    loopBackwardsFrom(emit(emit(emit(emit(c, "OpGetLen", 0), "OpInt", 1),
                                "OpSubtract", 0), "OpSetIndex", 0),
                      body)

\* kind(node.Type()) of equalBinaryNode
equalOpcode(node) ==
    LET l == typeKind(node.Left)
        r == typeKind(node.Right)
    IN  IF l = r /\ l = "int" THEN "OpEqualInt"
        ELSE IF l = r /\ l = "string" THEN "OpEqualString"
        ELSE "OpEqual"

BinaryOpcode ==
    [op \in {"<", ">", "<=", ">=", "+", "-", "*", "/", "%", "**", "^", "in",
             "contains", "startsWith", "endsWith", ".."} |->
        CASE op = "<" -> "OpLess"
          [] op = ">" -> "OpMore"
          [] op = "<=" -> "OpLessOrEqual"
          [] op = ">=" -> "OpMoreOrEqual"
          [] op = "+" -> "OpAdd"
          [] op = "-" -> "OpSubtract"
          [] op = "*" -> "OpMultiply"
          [] op = "/" -> "OpDivide"
          [] op = "%" -> "OpModulo"
          [] op \in {"**", "^"} -> "OpExponent"
          [] op = "in" -> "OpIn"
          [] op = "contains" -> "OpContains"
          [] op = "startsWith" -> "OpStartsWith"
          [] op = "endsWith" -> "OpEndsWith"
          [] op = ".." -> "OpRange"]

RECURSIVE compile(_, _)
RECURSIVE compileNodes(_, _, _, _)

\* compiles nodes[i..] in order, with an OpPop between them when pops is set
compileNodes(c, nodes, i, pops) ==
    IF i > Len(nodes) THEN c
    ELSE LET c1 == compile(c, nodes[i])
             c2 == IF pops /\ i < Len(nodes) THEN emit(c1, "OpPop", 0) ELSE c1
         IN  compileNodes(c2, nodes, i + 1, pops)

\* a binary node whose logical operators evaluate both operands
compileBinaryNodeEager(c, node) ==
    LET op == node.Operator
        both == derefInNeeded(compile(derefInNeeded(compile(c, node.Left),
                                                    node.Left),
                                      node.Right),
                              node.Right)
        c1 == derefInNeeded(compile(c, node.Left), node.Left)
        c2 == derefInNeeded(compile(emit(c1, "OpPop", 0), node.Right),
                            node.Right)
    IN  IF op = "==" THEN emit(both, equalOpcode(node), 0)
        ELSE IF op = "!=" THEN emit(emit(both, equalOpcode(node), 0), "OpNot", 0)
        ELSE IF op \in {"or", "||", "and", "&&", "??"} THEN c2
        ELSE emit(both, BinaryOpcode[op], 0)

compileBinaryNode(c, node) ==
    LET op == node.Operator
        both == derefInNeeded(compile(derefInNeeded(compile(c, node.Left),
                                                    node.Left),
                                      node.Right),
                              node.Right)
        jumpOp == IF op \in {"or", "||"} THEN "OpJumpIfTrue"
                  ELSE IF op \in {"and", "&&"} THEN "OpJumpIfFalse"
                  ELSE "OpJumpIfNotNil"
        c1 == emit(derefInNeeded(compile(c, node.Left), node.Left), jumpOp,
                   placeholder)
        end0 == Len(c1.bytecode)
        c2 == derefInNeeded(compile(emit(c1, "OpPop", 0), node.Right),
                            node.Right)
    IN  IF op = "==" THEN emit(both, equalOpcode(node), 0)
        ELSE IF op = "!=" THEN emit(emit(both, equalOpcode(node), 0), "OpNot", 0)
        ELSE IF op \in {"or", "||", "and", "&&", "??"} THEN patchJump(c2, end0)
        ELSE emit(both, BinaryOpcode[op], 0)

compileChainNode(c, node) ==
    LET RECURSIVE patchAll(_, _, _)
        patchAll(cc, phs, i) ==
            IF i > Len(phs) THEN cc ELSE patchAll(patchJump(cc, phs[i]), phs, i + 1)
        c1 == compile([c EXCEPT !.chains = Append(@, <<>>)], node.Node)
        c2 == patchAll(c1, c1.chains[Len(c1.chains)], 1)
        \* c.nodeParent(): the node below the chain on the node stack
        underCoalesce ==
            /\ Len(c2.nodes) > 1
            /\ c2.nodes[Len(c2.nodes) - 1].type = "BinaryNode"
            /\ c2.nodes[Len(c2.nodes) - 1].Operator = "??"
        c3 == emit(c2, "OpJumpIfNotNil", placeholder)
        j == Len(c3.bytecode)
        c4 == patchJump(emit(emit(c3, "OpPop", 0), "OpNil", 0), j)
        c5 == IF underCoalesce THEN c2 ELSE c4
    IN  [c5 EXCEPT !.chains = SubSeq(@, 1, Len(@) - 1)]

\* compiler.IdentifierNode for a name of the environment: OpLoadField for a
\* field of a struct Env, OpLoadConst otherwise
loadIdentifier(c, node, f) ==
    IF f.ok
    THEN emitField(c, node.loc, "OpLoadField", FieldVal(f.index, <<f.name>>))
    ELSE emitField(c, node.loc, "OpLoadConst", StrVal(node.Value))

\* the loop of compiler.MemberNode that folds the accesses under a field
\* access into its index: it ends with OpLoadField emitted for the whole
\* path (loaded), or at the node whose base is compiled next
RECURSIVE foldMember(_, _, _, _)
foldMember(c, node, index, path) ==
    LET base == node.Node
        f == FieldIndex(c.config.Env, base)
    IN  IF ~node.Optional /\ base.type = "IdentifierNode" /\ f.ok
        THEN [ok |-> TRUE, loaded |-> TRUE,
              c |-> emitField(c, base.loc, "OpLoadField",
                              FieldVal(f.index \o index, <<f.name>> \o path)),
              node |-> node, index |-> index, path |-> path]
        ELSE IF ~node.Optional /\ base.type = "MemberNode" /\ f.ok
        THEN foldMember(c, base, f.index \o index, <<f.name>> \o path)
        ELSE [ok |-> TRUE, loaded |-> FALSE, c |-> c, node |-> node,
              index |-> index, path |-> path]

\* compiler.MemberNode before it compiles the base: whether the node is a
\* field (ok), and the result of the folding.  No type of the model has a
\* method: MethodIndex finds nothing
memberFold(c, node, f) ==
    IF f.ok THEN foldMember(c, node, f.index, <<f.name>>)
    ELSE [ok |-> FALSE, loaded |-> FALSE, c |-> c, node |-> node,
          index |-> <<>>, path |-> <<>>]

\* if node.Optional && len(c.chains) > 0: OpJumpIfNil, recorded in the chain
nilTest(c, node) ==
    IF node.Optional /\ Len(c.chains) > 0
    THEN [emit(c, "OpJumpIfNil", placeholder) EXCEPT
             !.chains[Len(c.chains)] = Append(@, Len(c.bytecode) + 1)]
    ELSE c

\* the end of compiler.MemberNode: OpFetch after the property, or
\* OpFetchField with the folded index
fetchMember(c, node, folded) ==
    IF folded.ok
    THEN emitField(c, folded.node.loc, "OpFetchField",
                   FieldVal(folded.index, folded.path))
    ELSE emit(compile(c, node.Property), "OpFetch", 0)

compileMemberFolded(c, node, folded) ==
    IF folded.loaded THEN folded.c
    ELSE fetchMember(nilTest(compile(c, folded.node.Node), folded.node), node,
                     folded)

\* a member access that never emits the nil test of an optional chain
compileMemberNodeNoTest(c, node) ==
    emit(compile(compile(c, node.Node), node.Property), "OpFetch", 0)

compileMemberNode(c, node) ==
    compileMemberFolded(c, node,
                        memberFold(c, node, FieldIndex(c.config.Env, node)))

compileBuiltinNode(c, node) ==
    LET name == node.Name
        args == node.Arguments
        c0 == emit(derefInNeeded(compile(c, args[1]), args[1]), "OpBegin", 0)
        pred(cc) == compile(cc, args[2])
        predOrPointer(cc) ==
            IF Len(args) = 2 THEN compile(cc, args[2]) ELSE emit(cc, "OpPointer", 0)
        setBreak(cc) == [cc EXCEPT !.loopBreak = Len(cc.bytecode)]
        incCount(cc) == emit(cc, "OpIncrementCount", 0)
        incCountPointer(cc) == emit(emit(cc, "OpIncrementCount", 0), "OpPointer", 0)
        allBody(cc) ==
            emit(setBreak(emit(pred(cc), "OpJumpIfFalse", placeholder)), "OpPop", 0)
        noneBody(cc) ==
            emit(setBreak(emit(emit(pred(cc), "OpNot", 0), "OpJumpIfFalse",
                               placeholder)), "OpPop", 0)
        anyBody(cc) ==
            emit(setBreak(emit(pred(cc), "OpJumpIfTrue", placeholder)), "OpPop", 0)
        oneBody(cc) == emitCond(pred(cc), incCount)
        filterBody(cc) == emitCond(pred(cc), incCountPointer)
        countBody(cc) == emitCond(predOrPointer(cc), incCount)
        sumBody(cc) ==
            emit(emit(emit(predOrPointer(cc), "OpGetAcc", 0), "OpAdd", 0),
                 "OpSetAcc", 0)
        findBodyWith(cc, fetchOp) ==
            LET f1 == emit(pred(cc), "OpJumpIfFalse", placeholder)
                noop == Len(f1.bytecode)
                f2 == emit(emit(f1, "OpPop", 0), fetchOp, 0)
                f3 == setBreak(emit(f2, "OpJump", placeholder))
            IN  emit(patchJump(f3, noop), "OpPop", 0)
        findBody(cc) == findBodyWith(cc, "OpPointer")
        findIndexBody(cc) == findBodyWith(cc, "OpGetIndex")
        reduceBody(cc) == emit(pred(cc), "OpSetAcc", 0)
        \* after the loop: the fallthrough result, the break target, OpEnd
        finish(cl, op) ==
            emit(patchJump(emit(cl, op, 0), cl.loopBreak), "OpEnd", 0)
        seeded == emit(derefInNeeded(compile(c0, args[3]), args[3]), "OpSetAcc", 0)
        unseeded == emit(emit(emit(c0, "OpPointer", 0), "OpIncrementIndex", 0),
                         "OpSetAcc", 0)
    IN  CASE name = "all" -> finish(emitLoop(c0, allBody), "OpTrue")
          [] name = "none" -> finish(emitLoop(c0, noneBody), "OpTrue")
          [] name = "any" -> finish(emitLoop(c0, anyBody), "OpFalse")
          [] name = "one" ->
               emit(emit(emitPush(emit(emitLoop(c0, oneBody), "OpGetCount", 0),
                                  IntVal(1)),
                         "OpEqual", 0), "OpEnd", 0)
          [] name = "filter" ->
               emit(emit(emit(emitLoop(c0, filterBody), "OpGetCount", 0),
                         "OpEnd", 0), "OpArray", 0)
          [] name = "map" ->
               emit(emit(emit(emitLoop(c0, pred), "OpGetLen", 0), "OpEnd", 0),
                    "OpArray", 0)
          [] name = "count" ->
               emit(emit(emitLoop(c0, countBody), "OpGetCount", 0), "OpEnd", 0)
          [] name = "sum" ->
               emit(emit(emitLoop(emit(emit(c0, "OpInt", 0), "OpSetAcc", 0),
                                  sumBody),
                         "OpGetAcc", 0), "OpEnd", 0)
          [] name = "find" -> finish(emitLoop(c0, findBody), "OpNil")
          [] name = "findIndex" -> finish(emitLoop(c0, findIndexBody), "OpNil")
          [] name = "findLast" ->
               finish(emitLoopBackwards(c0, findBody), "OpNil")
          [] name = "findLastIndex" ->
               finish(emitLoopBackwards(c0, findIndexBody), "OpNil")
          [] name = "reduce" ->
               emit(emit(emitLoop(IF Len(args) = 3 THEN seeded ELSE unseeded,
                                  reduceBody),
                         "OpGetAcc", 0), "OpEnd", 0)

compileConditionalNode(c, node) ==
    LET c1 == emit(compile(c, node.Cond), "OpJumpIfFalse", placeholder)
        otherwise == Len(c1.bytecode)
        c2 == emit(compile(emit(c1, "OpPop", 0), node.Exp1), "OpJump", placeholder)
        end0 == Len(c2.bytecode)
        c3 == compile(emit(patchJump(c2, otherwise), "OpPop", 0), node.Exp2)
    IN  patchJump(c3, end0)

\* a let whose OpStore comes after the code of its body
compileVariableDeclaratorNodeLate(c, node) ==
    LET c1 == compile(c, node.Value)
        index == c1.variables
        c2 == [c1 EXCEPT !.variables = @ + 1,
                         !.scopes = Append(@, [variableName |-> node.Name,
                                               index |-> index])]
        c3 == emit(compile(c2, node.Expr), "OpStore", index)
    IN  [c3 EXCEPT !.scopes = SubSeq(@, 1, Len(@) - 1)]

compileVariableDeclaratorNode(c, node) ==
    LET c1 == compile(c, node.Value)
        index == c1.variables
        c2 == emit([c1 EXCEPT !.variables = @ + 1], "OpStore", index)
        c3 == [c2 EXCEPT !.scopes =
                  Append(@, [variableName |-> node.Name, index |-> index])]
        c4 == compile(c3, node.Expr)
    IN  [c4 EXCEPT !.scopes = SubSeq(@, 1, Len(@) - 1)]

compile(c, node) ==
    LET c0 == [c EXCEPT !.nodes = Append(@, node)]
        c1 ==
          CASE node.type = "NilNode" -> emit(c0, "OpNil", 0)
            [] node.type = "IdentifierNode" ->
                 IF lookupVariable(c0, node.Value) >= 0
                 THEN emit(c0, "OpLoadVar", lookupVariable(c0, node.Value))
                 ELSE IF node.Value = "$env" THEN emit(c0, "OpLoadEnv", 0)
                 ELSE loadIdentifier(c0, node, FieldIndex(c0.config.Env, node))
            [] node.type = "IntegerNode" -> emitPush(c0, IntVal(node.Value))
            [] node.type = "BoolNode" ->
                 emit(c0, IF node.Value THEN "OpTrue" ELSE "OpFalse", 0)
            [] node.type = "StringNode" -> emitPush(c0, StrVal(node.Value))
            [] node.type = "UnaryNode" ->
                 LET cu == derefInNeeded(compile(c0, node.Node), node.Node)
                 IN  IF node.Operator \in {"!", "not"} THEN emit(cu, "OpNot", 0)
                     ELSE IF node.Operator = "+" THEN cu
                     ELSE emit(cu, "OpNegate", 0)
            [] node.type = "BinaryNode" -> compileBinaryNode(c0, node)
            [] node.type = "ChainNode" -> compileChainNode(c0, node)
            [] node.type = "MemberNode" -> compileMemberNode(c0, node)
            [] node.type = "CallNode" ->
                 \* the callee's Type is not a func: arguments, callee, OpCall
                 emit(compile(compileNodes(c0, node.Arguments, 1, FALSE),
                              node.Callee),
                      "OpCall", Len(node.Arguments))
            [] node.type = "BuiltinNode" -> compileBuiltinNode(c0, node)
            [] node.type = "PredicateNode" -> compile(c0, node.Node)
            [] node.type = "PointerNode" ->
                 LET ce == emit(c0, CASE node.Name = "index" -> "OpGetIndex"
                                      [] node.Name = "acc" -> "OpGetAcc"
                                      [] node.Name = "" -> "OpPointer", 0)
                 IN  \* the instruction of a PointerNode and the scope depth
                     \* the checker resolved the node at
                     [ce EXCEPT !.pointers =
                         @ \cup {[at |-> Len(ce.bytecode),
                                  frame |-> node.frame]}]
            [] node.type = "VariableDeclaratorNode" ->
                 compileVariableDeclaratorNode(c0, node)
            [] node.type = "SequenceNode" -> compileNodes(c0, node.Nodes, 1, TRUE)
            [] node.type = "ConditionalNode" -> compileConditionalNode(c0, node)
            [] node.type = "ArrayNode" ->
                 emit(emitPush(compileNodes(c0, node.Nodes, 1, FALSE),
                               IntVal(Len(node.Nodes))), "OpArray", 0)
            [] node.type = "MapNode" ->
                 emit(emitPush(compileNodes(c0, node.Pairs, 1, FALSE),
                               IntVal(Len(node.Pairs))), "OpMap", 0)
            [] node.type = "PairNode" ->
                 compile(compile(c0, node.Key), node.Value)
    IN  [c1 EXCEPT !.nodes = SubSeq(@, 1, Len(@) - 1)]

\* the jump threading of compiler.optimize, instruction by instruction
\* a threading that steps over the jump it lands on instead of taking it
threadTargetFallThrough(c, op, target) ==
    IF target < Len(c.bytecode) /\ c.bytecode[target + 1] = op
    THEN target + 1
    ELSE target

RECURSIVE threadTarget(_, _, _)
threadTarget(c, op, target) ==
    IF target < Len(c.bytecode) /\ c.bytecode[target + 1] = op
    THEN threadTarget(c, op, target + c.arguments[target + 1] + 1)
    ELSE target

RECURSIVE optimizeFrom(_, _)
optimizeFrom(c, i) ==
    IF i >= Len(c.bytecode) THEN c
    ELSE IF c.bytecode[i + 1] \in {"OpJumpIfTrue", "OpJumpIfFalse", "OpJumpIfNil",
                                   "OpJumpIfNotNil"}
    THEN optimizeFrom(
            [c EXCEPT !.arguments[i + 1] =
                threadTarget(c, c.bytecode[i + 1], i + c.arguments[i + 1] + 1)
                - i - 1],
            i + 1)
    ELSE optimizeFrom(c, i + 1)

optimize(c) == optimizeFrom(c, 0)

\* the cast Compile appends for config.Expect
emitCast(c) ==
    CASE c.config.Expect = "int" -> emit(c, "OpCast", 0)
      [] c.config.Expect = "int64" -> emit(c, "OpCast", 1)
      [] c.config.Expect = "float64" -> emit(c, "OpCast", 2)
      [] OTHER -> c

\* compiler.Compile: the Program of a checked tree
Compile(tree, config) ==
    LET c == compile(NewCompiler(config), tree)
        cc == IF config.isnil THEN c ELSE emitCast(c)
        co == IF ~config.isnil /\ config.Optimize THEN optimize(cc) ELSE cc
    IN  [Bytecode |-> co.bytecode, Arguments |-> co.arguments,
         locations |-> co.locations, Constants |-> co.constants,
         variables |-> co.variables, patches |-> co.patches,
         pointers |-> co.pointers, added |-> co.added]

(***************************************************************************)
(* Runtime helpers.  A helper's result is [ok, v]: ok is FALSE when the Go *)
(* function panics.                                                        *)
(***************************************************************************)
Ok(v) == [ok |-> TRUE, v |-> v]
Fail == [ok |-> FALSE, v |-> NilVal]

IsNilValue(x) == x.t = "nil"

RECURSIVE Equal(_, _)
Equal(a, b) ==
    IF a.t # b.t THEN FALSE
    ELSE CASE a.t = "nil" -> TRUE
           [] a.t \in {"int", "int64", "float64", "bool", "string"} ->
                a.v = b.v
           [] a.t \in {"array", "ints"} ->
                /\ Len(a.v) = Len(b.v)
                /\ \A i \in 1..Len(a.v) : Equal(a.v[i], b.v[i])
           [] a.t = "map" ->
                /\ DOMAIN a.v = DOMAIN b.v
                /\ \A k \in DOMAIN a.v : Equal(a.v[k], b.v[k])

\* runtime.Less, More, LessOrEqual, MoreOrEqual on integers
Compare(op, a, b) ==
    IF a.t = "int" /\ b.t = "int"
    THEN Ok(BoolVal(CASE op = "OpLess" -> a.v < b.v
                      [] op = "OpMore" -> a.v > b.v
                      [] op = "OpLessOrEqual" -> a.v <= b.v
                      [] op = "OpMoreOrEqual" -> a.v >= b.v))
    ELSE Fail

\* runtime.Add, Subtract, Multiply, Modulo on integers
Arith(op, a, b) ==
    IF a.t = "int" /\ b.t = "int"
    THEN CASE op = "OpAdd" -> Ok(IntVal(a.v + b.v))
           [] op = "OpSubtract" -> Ok(IntVal(a.v - b.v))
           [] op = "OpMultiply" -> Ok(IntVal(a.v * b.v))
           [] op = "OpModulo" -> IF b.v = 0 THEN Fail
                                 ELSE IF a.v >= 0 THEN Ok(IntVal(a.v % b.v))
                                 ELSE Ok(IntVal(-((-a.v) % b.v)))
    ELSE Fail

Negate(a) == IF a.t = "int" THEN Ok(IntVal(-a.v)) ELSE Fail

ToInt(a) == IF a.t = "int" THEN Ok(a.v) ELSE Fail

MakeRange(min, max) ==
    IF max - min + 1 <= 0 THEN IntsVal(<<>>)
    ELSE IntsVal([i \in 1..(max - min + 1) |-> IntVal(min + i - 1)])

Fetch(from, i) ==
    CASE from.t = "nil" -> Fail
      [] IsArr(from) ->
           IF i.t # "int" THEN Fail
           ELSE LET l == Len(from.v)
                    index == IF i.v < 0 THEN l + i.v ELSE i.v
                IN  IF index < 0 \/ index >= l THEN Fail
                    ELSE Ok(from.v[index + 1])
      [] from.t = "map" ->
           IF i.t = "nil" THEN Ok(IF "" \in DOMAIN from.v THEN from.v[""] ELSE NilVal)
           ELSE IF i.t # "string" THEN Fail
           ELSE Ok(IF i.v \in DOMAIN from.v THEN from.v[i.v] ELSE NilVal)
      [] from.t \in {"int", "bool"} -> Fail

In(needle, array) ==
    CASE array.t = "nil" -> Ok(BoolVal(FALSE))
      [] IsArr(array) ->
           Ok(BoolVal(\E i \in 1..Len(array.v) : Equal(array.v[i], needle)))
      [] array.t = "map" ->
           IF needle.t = "nil" THEN Ok(BoolVal("" \in DOMAIN array.v))
           ELSE IF needle.t # "string" THEN Fail
           ELSE Ok(BoolVal(needle.v \in DOMAIN array.v))
      [] array.t \in {"int", "bool", "string"} -> Fail

(***************************************************************************)
(* The virtual machine.  ip counts instructions from 0 as in the Go code;  *)
(* the instruction about to run is Bytecode[ip + 1].                       *)
(***************************************************************************)
Scope(array) ==
    [Array |-> array,
     Len |-> IF IsArr(array) THEN Len(array.v) ELSE Cardinality(DOMAIN array.v),
     Index |-> 0, Count |-> 0, Acc |-> NilVal]

\* the outcome of one instruction: the machine and whether it panicked
Done(vm) == [vm |-> vm, panic |-> FALSE, msg |-> ""]
Panicked(vm, msg) == [vm |-> vm, panic |-> TRUE, msg |-> msg]

MsgBudget == "memory budget exceeded"
MsgRuntime == "runtime error"

push(vm, value) == [vm EXCEPT !.Stack = Append(@, value)]

\* the machine after k values were popped (fewer when the stack is shorter,
\* the pop that finds the stack empty panics)
drop(vm, k) ==
    [vm EXCEPT !.Stack = IF Len(@) >= k THEN SubSeq(@, 1, Len(@) - k) ELSE <<>>]

\* the k-th value from the top of the stack
peek(vm, k) == vm.Stack[Len(vm.Stack) - k + 1]

memGrow(vm, size) ==
    LET vm1 == [vm EXCEPT !.memory = @ + size]
    IN  IF vm1.memory >= vm1.MemoryBudget THEN Panicked(vm1, MsgBudget)
        ELSE Done(vm1)

\* an instruction that pops b, then a, and pushes f(a, b)
binaryOp(vm, r(_, _)) ==
    IF Len(vm.Stack) < 2 THEN Panicked(drop(vm, 2), MsgRuntime)
    ELSE LET res == r(peek(vm, 2), peek(vm, 1))
         IN  IF res.ok THEN Done(push(drop(vm, 2), res.v))
             ELSE Panicked(drop(vm, 2), MsgRuntime)

\* an instruction that pops a and pushes f(a)
unaryOp(vm, r(_)) ==
    IF Len(vm.Stack) < 1 THEN Panicked(vm, MsgRuntime)
    ELSE LET res == r(peek(vm, 1))
         IN  IF res.ok THEN Done(push(drop(vm, 1), res.v))
             ELSE Panicked(drop(vm, 1), MsgRuntime)

\* a conditional jump on vm.current()
jumpIf(vm, arg, typed(_), cond(_)) ==
    IF Len(vm.Stack) < 1 \/ ~typed(peek(vm, 1)) THEN Panicked(vm, MsgRuntime)
    ELSE IF cond(peek(vm, 1)) THEN Done([vm EXCEPT !.ip = @ + arg])
    ELSE Done(vm)

\* an instruction on the top iteration frame
onScope(vm, f(_)) ==
    IF Len(vm.Scopes) = 0 THEN Panicked(vm, MsgRuntime)
    ELSE f(vm.Scopes[Len(vm.Scopes)])

setScope(vm, scope) == [vm EXCEPT !.Scopes[Len(vm.Scopes)] = scope]

\* OpArray: the size, the budget, then the elements
opArray(vm) ==
    IF Len(vm.Stack) < 1 THEN Panicked(vm, MsgRuntime)
    ELSE IF peek(vm, 1).t # "int" THEN Panicked(drop(vm, 1), MsgRuntime)
    ELSE LET size == peek(vm, 1).v
             g == memGrow(drop(vm, 1), size)
             n == Len(g.vm.Stack)
         IN  IF g.panic THEN g
             ELSE IF n < size THEN Panicked(drop(g.vm, size), MsgRuntime)
             ELSE Done(push(drop(g.vm, size),
                            ArrVal(SubSeq(g.vm.Stack, n - size + 1, n))))

\* OpMap: the size, the budget, then the pairs, popped last to first, so
\* the first pair of a repeated key is the one that stays
opMap(vm) ==
    IF Len(vm.Stack) < 1 THEN Panicked(vm, MsgRuntime)
    ELSE IF peek(vm, 1).t # "int" THEN Panicked(drop(vm, 1), MsgRuntime)
    ELSE LET size == peek(vm, 1).v
             g == memGrow(drop(vm, 1), size)
             n == Len(g.vm.Stack)
             base == n - 2 * size
             keys == {g.vm.Stack[base + 2 * i - 1].v : i \in 1..size}
             first(k) == CHOOSE i \in 1..size :
                             /\ g.vm.Stack[base + 2 * i - 1].v = k
                             /\ \A j \in 1..size :
                                  g.vm.Stack[base + 2 * j - 1].v = k => i <= j
         IN  IF g.panic THEN g
             ELSE IF n < 2 * size THEN Panicked(drop(g.vm, 2 * size), MsgRuntime)
             ELSE IF \E i \in 1..size : g.vm.Stack[base + 2 * i - 1].t # "string"
             THEN Panicked(drop(g.vm, 2 * size), MsgRuntime)
             ELSE Done(push(drop(g.vm, 2 * size),
                            MapVal([k \in keys |-> g.vm.Stack[base + 2 * first(k)]])))

\* OpRange
opRange(vm) ==
    IF Len(vm.Stack) < 2 THEN Panicked(drop(vm, 2), MsgRuntime)
    ELSE LET a == peek(vm, 2)
             b == peek(vm, 1)
             size == IF b.v - a.v + 1 <= 0 THEN 0 ELSE b.v - a.v + 1
             g == memGrow(drop(vm, 2), size)
         IN  IF a.t # "int" \/ b.t # "int" THEN Panicked(drop(vm, 2), MsgRuntime)
             ELSE IF g.panic THEN g
             ELSE Done(push(g.vm, MakeRange(a.v, b.v)))

\* OpIncrementIndex
\* an OpIncrementIndex that steps over an element
opIncrementIndexTwice(vm) ==
    IF Len(vm.Scopes) = 0 THEN Panicked(vm, MsgRuntime)
    ELSE Done([vm EXCEPT !.Scopes[Len(vm.Scopes)].Index = @ + 2])

opIncrementIndex(vm) ==
    IF Len(vm.Scopes) = 0 THEN Panicked(vm, MsgRuntime)
    ELSE Done([vm EXCEPT !.Scopes[Len(vm.Scopes)].Index = @ + 1])

\* a decrement written as the increment it was copied from
opDecrementIndexUp(vm) == opIncrementIndex(vm)

\* OpDecrementIndex
opDecrementIndex(vm) ==
    IF Len(vm.Scopes) = 0 THEN Panicked(vm, MsgRuntime)
    ELSE Done([vm EXCEPT !.Scopes[Len(vm.Scopes)].Index = @ - 1])

\* an End that leaves its frame on the stack
opEndKeep(vm) == Done(vm)

\* OpEnd: the top iteration frame is popped
opEnd(vm) ==
    IF Len(vm.Scopes) = 0 THEN Panicked(vm, MsgRuntime)
    ELSE Done([vm EXCEPT !.Scopes = SubSeq(@, 1, Len(@) - 1)])

\* OpCall: the callee is popped, then the arguments from the last to the
\* first.  No value of an environment is a function, so reflect panics: in
\* fn.Type().In(i) at the first nil argument met, or else in fn.Call
opCall(vm, size) ==
    IF Len(vm.Stack) < 1 THEN Panicked(vm, MsgRuntime)
    ELSE LET vm1 == drop(vm, 1)
             held == IF Len(vm1.Stack) < size THEN Len(vm1.Stack) ELSE size
             nils == {k \in 1..held : IsNilValue(peek(vm1, k))}
         IN  Panicked(drop(vm1, IF nils = {} THEN held
                                ELSE CHOOSE k \in nils : \A j \in nils : k <= j),
                      MsgRuntime)

\* runtime.ToInt, ToInt64 and ToFloat64 on the values of the model: a number
\* is converted, any other value panics
castTo(kind, a) ==
    IF a.t \in {"int", "int64", "float64"} THEN Ok(Val(kind, a.v)) ELSE Fail

castInt(a) == castTo("int", a)

castInt64(a) == castTo("int64", a)

castFloat64(a) == castTo("float64", a)

\* OpCast: an argument outside 0..2 matches no case and the value stays
opCast(vm, arg) ==
    CASE arg = 0 -> unaryOp(vm, castInt)
      [] arg = 1 -> unaryOp(vm, castInt64)
      [] arg = 2 -> unaryOp(vm, castFloat64)
      [] OTHER -> Done(vm)

\* one iteration of the interpreter loop of VM.Run
exec(vm0, program, env) ==
    LET op == program.Bytecode[vm0.ip + 1]
        arg == program.Arguments[vm0.ip + 1]
        vm == [vm0 EXCEPT !.ip = @ + 1]
        typedBool(x) == x.t = "bool"
        any(x) == TRUE
        isTrue(x) == x.v
        isFalse(x) == ~x.v
        notNil(x) == ~IsNilValue(x)
        fetchEnv(x) == Fetch(env, program.Constants[arg + 1])
        equal(a, b) == Ok(BoolVal(Equal(a, b)))
        equalInt(a, b) ==
            IF a.t = "int" /\ b.t = "int" THEN Ok(BoolVal(a.v = b.v)) ELSE Fail
        equalString(a, b) ==
            IF a.t = "string" /\ b.t = "string" THEN Ok(BoolVal(a.v = b.v))
            ELSE Fail
        compare(a, b) == Compare(op, a, b)
        arith(a, b) == Arith(op, a, b)
        negate(a) == IF a.t = "bool" THEN Ok(BoolVal(~a.v)) ELSE Fail
        deref(a) == Ok(a)
        jumpIfEnd(sc) ==
            IF sc.Index >= sc.Len THEN Done([vm EXCEPT !.ip = @ + arg])
            ELSE Done(vm)
        incCount(sc) == Done(setScope(vm, [sc EXCEPT !.Count = @ + 1]))
        getIndex(sc) == Done(push(vm, IntVal(sc.Index)))
        getCount(sc) == Done(push(vm, IntVal(sc.Count)))
        getLen(sc) == Done(push(vm, IntVal(sc.Len)))
        getAcc(sc) == Done(push(vm, sc.Acc))
        setAcc(sc) ==
            IF Len(vm.Stack) < 1 THEN Panicked(vm, MsgRuntime)
            ELSE Done(setScope(drop(vm, 1), [sc EXCEPT !.Acc = peek(vm, 1)]))
        setIndex(sc) ==
            IF Len(vm.Stack) < 1 THEN Panicked(vm, MsgRuntime)
            ELSE IF peek(vm, 1).t # "int" THEN Panicked(drop(vm, 1), MsgRuntime)
            ELSE Done(setScope(drop(vm, 1), [sc EXCEPT !.Index = peek(vm, 1).v]))
        pointerOf(sc) ==
            IF ~IsArr(sc.Array) \/ sc.Index < 0 \/ sc.Index >= sc.Len
            THEN Panicked(vm, MsgRuntime)
            ELSE Done(push(vm, sc.Array.v[sc.Index + 1]))
    IN  CASE op = "OpPush" -> Done(push(vm, program.Constants[arg + 1]))
          [] op = "OpInt" -> Done(push(vm, IntVal(arg)))
          [] op = "OpPop" ->
               IF Len(vm.Stack) < 1 THEN Panicked(vm, MsgRuntime)
               ELSE Done(drop(vm, 1))
          [] op = "OpStore" ->
               IF Len(vm.Stack) < 1 THEN Panicked(vm, MsgRuntime)
               ELSE Done([drop(vm, 1) EXCEPT !.Variables[arg + 1] = peek(vm, 1)])
          [] op = "OpLoadVar" -> Done(push(vm, vm.Variables[arg + 1]))
          [] op = "OpLoadConst" ->
               LET res == fetchEnv(0)
               IN  IF res.ok THEN Done(push(vm, res.v))
                   ELSE Panicked(vm, MsgRuntime)
          [] op = "OpLoadEnv" -> Done(push(vm, env))
          [] op = "OpFetch" -> binaryOp(vm, Fetch)
          [] op = "OpTrue" -> Done(push(vm, BoolVal(TRUE)))
          [] op = "OpFalse" -> Done(push(vm, BoolVal(FALSE)))
          [] op = "OpNil" -> Done(push(vm, NilVal))
          [] op = "OpNegate" -> unaryOp(vm, Negate)
          [] op = "OpNot" -> unaryOp(vm, negate)
          [] op = "OpEqual" -> binaryOp(vm, equal)
          [] op = "OpEqualInt" -> binaryOp(vm, equalInt)
          [] op = "OpEqualString" -> binaryOp(vm, equalString)
          [] op = "OpJump" -> Done([vm EXCEPT !.ip = @ + arg])
          [] op = "OpJumpIfTrue" -> jumpIf(vm, arg, typedBool, isTrue)
          [] op = "OpJumpIfFalse" -> jumpIf(vm, arg, typedBool, isFalse)
          [] op = "OpJumpIfNil" -> jumpIf(vm, arg, any, IsNilValue)
          [] op = "OpJumpIfNotNil" -> jumpIf(vm, arg, any, notNil)
          [] op = "OpJumpIfEnd" -> onScope(vm, jumpIfEnd)
          [] op = "OpJumpBackward" -> Done([vm EXCEPT !.ip = @ - arg])
          [] op = "OpIn" -> binaryOp(vm, In)
          [] op \in {"OpLess", "OpMore", "OpLessOrEqual", "OpMoreOrEqual"} ->
               binaryOp(vm, compare)
          [] op \in {"OpAdd", "OpSubtract", "OpMultiply", "OpModulo"} ->
               binaryOp(vm, arith)
          [] op = "OpRange" -> opRange(vm)
          [] op = "OpArray" -> opArray(vm)
          [] op = "OpMap" -> opMap(vm)
          [] op = "OpDeref" -> unaryOp(vm, deref)
          [] op = "OpIncrementIndex" -> opIncrementIndex(vm)
          [] op = "OpDecrementIndex" -> opDecrementIndex(vm)
          [] op = "OpIncrementCount" -> onScope(vm, incCount)
          [] op = "OpGetIndex" -> onScope(vm, getIndex)
          [] op = "OpGetCount" -> onScope(vm, getCount)
          [] op = "OpGetLen" -> onScope(vm, getLen)
          [] op = "OpGetAcc" -> onScope(vm, getAcc)
          [] op = "OpSetAcc" -> onScope(vm, setAcc)
          [] op = "OpSetIndex" -> onScope(vm, setIndex)
          [] op = "OpPointer" -> onScope(vm, pointerOf)
          [] op = "OpBegin" ->
               IF Len(vm.Stack) < 1 THEN Panicked(vm, MsgRuntime)
               ELSE IF ~(IsArr(peek(vm, 1)) \/ peek(vm, 1).t = "map")
               THEN Panicked(drop(vm, 1), MsgRuntime)
               ELSE Done([drop(vm, 1) EXCEPT !.Scopes =
                             Append(@, Scope(peek(vm, 1)))])
          [] op = "OpEnd" -> opEnd(vm)
          [] op = "OpCall" -> opCall(vm, arg)
          [] op = "OpCast" -> opCast(vm, arg)

\* a prologue that keeps the memory counter of the run before
prologueKeepMemory(vm, program) ==
    [vm EXCEPT !.ip = 0, !.Stack = <<>>, !.Scopes = <<>>,
               !.Variables = IF Len(@) < program.variables
                             THEN [i \in 1..program.variables |-> NilVal]
                             ELSE @,
               !.MemoryBudget = IF @ = 0 THEN DefaultMemoryBudget ELSE @]

\* the prologue of VM.Run: the stack and the frames are emptied, the
\* variables are kept unless the program needs more of them, the counters
\* are zeroed
prologue(vm, program) ==
    [vm EXCEPT !.ip = 0, !.Stack = <<>>, !.Scopes = <<>>,
               !.Variables = IF Len(@) < program.variables
                             THEN [i \in 1..program.variables |-> NilVal]
                             ELSE @,
               !.MemoryBudget = IF @ = 0 THEN DefaultMemoryBudget ELSE @,
               !.memory = 0]

\* the machine VM.Run starts from: a fresh VM{} after the prologue
NewVM(program, budget) ==
    prologue([ip |-> 0, Stack |-> <<>>, Scopes |-> <<>>, Variables |-> <<>>,
              memory |-> 0, MemoryBudget |-> budget],
             program)

\* a recover that reads the location at vm.ip, the instruction not yet run
recoveredAtNext(vm, program, msg) ==
    Error(IF vm.ip < Len(program.locations)
          THEN program.locations[vm.ip + 1]
          ELSE ZeroLocation, msg)

\* the error the deferred recover of VM.Run builds
recovered(vm, program, msg) ==
    Error(IF vm.ip - 1 < Len(program.locations)
          THEN program.locations[vm.ip]
          ELSE ZeroLocation, msg)

\* VM.Run returning after the loop: the top of the stack, or nil
runCompleted(vm) ==
    [value |-> IF Len(vm.Stack) > 0 THEN peek(vm, 1) ELSE NilVal,
     err |-> NoError]

\* a recover that also hands back what the stack held
runFailedWithValue(vm, program, msg) ==
    [value |-> IF Len(vm.Stack) > 0 THEN peek(vm, 1) ELSE NilVal,
     err |-> recovered(vm, program, msg)]

\* VM.Run returning through the deferred recover: the unnamed result keeps
\* its zero value, err is the bound error
runFailed(vm, program, msg) ==
    [value |-> NilVal, err |-> recovered(vm, program, msg)]

\* Run on a nil program
MsgProgramNil == "program is nil"
runNilProgram == [value |-> NilVal, err |-> Error(ZeroLocation, MsgProgramNil)]

\* VM.Run from the prologue to its return, as one function
RECURSIVE runLoop(_, _, _)
runLoop(vm, program, env) ==
    IF vm.ip >= Len(program.Bytecode) THEN runCompleted(vm)
    ELSE LET o == exec(vm, program, env)
         IN  IF o.panic THEN runFailed(o.vm, program, o.msg)
             ELSE runLoop(o.vm, program, env)

\* parse, check, compile and run a source; a source that does not compile
\* has no result
Eval(source, env) ==
    LET r == ParseWithConfig(source, NilConfig)
        c == Check(r.tree, NilConfig)
        program == Compile(c.tree, NilConfig)
    IN  IF r.panic \/ ~r.err.isnil \/ ~c.err.isnil
        THEN [compiled |-> FALSE, out |-> runNilProgram]
        ELSE [compiled |-> TRUE,
              out |-> runLoop(NewVM(program, 0), program, env)]

(***************************************************************************)
(* Inputs.                                                                 *)
(***************************************************************************)
MaxBudget == 2
\* the calls of Run on one VM
MaxRuns == 2
SmallMaxNodes == 3

\* all sequences over S of length at most n
SeqsUpTo(S, n) == UNION {[1..k -> S] : k \in 0..n}

CmpOps == {"<", "<=", ">", ">=", "==", "!="}

\* a op1 b op2 c
Chained(op1, op2) == <<Id("a"), Op(op1), Id("b"), Op(op2), Id("c")>>

\* (a op1 b) && (b op2 c)
Conjoined(op1, op2) ==
    <<Br("("), Id("a"), Op(op1), Id("b"), Br(")"), Op("&&"),
      Br("("), Id("b"), Op(op2), Id("c"), Br(")")>>

PredicateBuiltins ==
    {"all", "none", "any", "one", "filter", "map", "count", "sum", "find",
     "findIndex", "findLast", "findLastIndex"}

\* name(xs, # > 0)
OverXs(name) ==
    <<Id(name), Br("("), Id("xs"), Op(","), Op("#"), Op(">"), Num("0"), Br(")")>>

\* map(xs, reduce(xs, #acc + #, #)): the seed of the inner call is a pointer
SeededInMap ==
    <<Id("map"), Br("("), Id("xs"), Op(","),
      Id("reduce"), Br("("), Id("xs"), Op(","), Op("#"), Id("acc"), Op("+"),
      Op("#"), Op(","), Op("#"), Br(")"), Br(")")>>

Templates ==
    { <<Id("a"), Op("?."), Id("b"), Op("."), Id("c")>>,
      <<Id("a"), Op("?."), Id("b")>>,
      <<Id("a"), Op("."), Id("b"), Op("."), Id("c")>>,
      <<Id("a"), Op("&&"), Id("b")>>,
      <<Id("a"), Op("||"), Id("b")>>,
      <<Id("a"), Op("??"), Id("b")>>,
      <<Id("a"), Op("||"), Id("b"), Op("||"), Id("c")>>,
      <<Id("a"), Op("+"), Id("b")>>,
      <<Id("a"), Op("=="), Id("b")>>,
      <<Id("a"), Op("in"), Id("xs")>>,
      <<Id("a"), Op("not"), Op("in"), Id("xs")>>,
      <<Op("-"), Id("a")>>,
      <<Id("a"), Br("("), Id("b"), Br(")")>>,
      <<Op("not"), Id("a")>>,
      <<Id("a"), Op("?"), Id("b"), Op(":"), Id("c")>>,
      <<Id("a"), Op("?"), Id("b"), Op(":")>>,
      <<Op("if"), Id("a"), Br("{"), Id("b"), Br("}"), Op("else"),
        Br("{"), Id("c"), Br("}")>>,
      <<Op("let"), Id("x"), Op("="), Id("a"), Op(";"), Id("x"), Op("+"),
        Num("1")>>,
      <<Op("let"), Id("x"), Op("="), Num("1"), Op(";"),
        Op("let"), Id("x"), Op("="), Num("2"), Op(";"), Id("x")>>,
      <<Op("let"), Id("x"), Op("="), Num("1"), Op(";"),
        Op("let"), Id("y"), Op("="), Num("2"), Op(";"), Id("x")>>,
      <<Id("a"), Br("("), Op("let"), Id("x"), Op("="), Num("1"), Op(";"),
        Op("let"), Id("x"), Op("="), Num("2"), Op(";"), Id("x"), Br(")")>>,
      <<Br("["), Br("]")>>,
      <<Br("["), Id("a"), Br("]")>>,
      <<Br("["), Num("1"), Op(","), Num("2"), Br("]")>>,
      <<Br("["), Br("["), Num("1"), Br("]"), Op(","), Br("["), Num("2"),
        Br("]"), Br("]")>>,
      <<Br("{"), Id("k"), Op(":"), Id("a"), Br("}")>>,
      <<Num("1"), Op(".."), Num("2")>>,
      <<Num("0"), Op(".."), Id("a")>>,
      <<Id("filter"), Br("("), Num("0"), Op(".."), Id("a"), Op(","), Op("#"),
        Op(">"), Num("0"), Br(")")>>,
      <<Id("find"), Br("("), Id("xs"), Op(","), Op("#"), Br(")")>>,
      <<Id("any"), Br("("), Id("xs"), Op(","), Id("any"), Br("("), Id("xs"),
        Op(","), Op("#"), Op(">"), Num("0"), Br(")"), Br(")")>>,
      <<Id("reduce"), Br("("), Id("xs"), Op(","), Op("#"), Id("acc"), Op("+"),
        Op("#"), Br(")")>>,
      <<Id("reduce"), Br("("), Id("xs"), Op(","), Op("#"), Id("acc"), Op("+"),
        Op("#"), Op(","), Num("0"), Br(")")>>,
      <<Id("reduce"), Br("("), Id("xs"), Op(","), Op("#"), Id("acc"), Op("-"),
        Op("#"), Br(")")>>,
      <<Id("reduce"), Br("("), Id("xs"), Op(","), Op("#"), Id("acc"), Op("-"),
        Op("#"), Op(","), Num("0"), Br(")")>>,
      <<Id("reduce"), Br("("), Num("1"), Op(".."), Num("4"), Op(","), Op("#"),
        Id("acc"), Op("+"), Op("#"), Op(","), Num("0"), Br(")")>>,
      SeededInMap }
    \cup {OverXs(name) : name \in PredicateBuiltins}

Alphabet ==
    {Id("a"), Num("1"), Op("+"), Op("?"), Op(":"), Br("("), Br(")"), Op("?.")}

\* the operators tried next to ??
MixOps == {"+", "||", "=="}

Sources ==
    Templates \cup {Chained(op1, op2) : op1, op2 \in CmpOps}
              \cup {Chained("??", op) : op \in MixOps}
              \cup {Chained(op, "??") : op \in MixOps}
              \cup SeqsUpTo(Alphabet, MaxSrcLen)

Configs ==
    {NilConfig, Config(0, TRUE), Config(SmallMaxNodes, FALSE),
     AsKind(Config(0, TRUE), "int64")}

\* The values an environment may hold, listed in sequences (values of
\* different Go types are never members of one set).
Scalars ==
    <<NilVal, BoolVal(FALSE), BoolVal(TRUE)>> \o [i \in 1..(MaxLit + 1) |-> IntVal(i - 1)]

Elems == <<NilVal>> \o [i \in 1..(MaxLit + 1) |-> IntVal(i - 1)]

\* every sequence of ss extended by every element of E
Extend(ss, E) ==
    [k \in 1..(Len(ss) * Len(E)) |->
        Append(ss[((k - 1) \div Len(E)) + 1], E[((k - 1) % Len(E)) + 1])]

RECURSIVE ArraysOfLen(_)
ArraysOfLen(n) == IF n = 0 THEN <<(<<>>)>> ELSE Extend(ArraysOfLen(n - 1), Elems)

RECURSIVE ArraysUpTo(_)
ArraysUpTo(n) ==
    IF n = 0 THEN ArraysOfLen(0) ELSE ArraysUpTo(n - 1) \o ArraysOfLen(n)

Arrays == [k \in 1..Len(ArraysUpTo(MaxArrLen)) |-> ArrVal(ArraysUpTo(MaxArrLen)[k])]

Maps ==
    <<MapVal([k \in {"b"} |-> NilVal]),
      MapVal([k \in {"b"} |-> MapVal([j \in {"c"} |-> IntVal(1)])])>>

ValuesOf(name) ==
    CASE name = "xs" -> <<NilVal>> \o Arrays
      [] name = "a" -> Scalars \o Maps
      [] OTHER -> Scalars

\* the names a program loads from its environment
Loaded(program) ==
    {program.Constants[program.Arguments[i] + 1].v :
        i \in {j \in 1..Len(program.Bytecode) : program.Bytecode[j] = "OpLoadConst"}}

\* the choices of one value for each name the program loads
RECURSIVE ChoicesOver(_)
ChoicesOver(names) ==
    IF names = {} THEN {[n \in {} |-> 1]}
    ELSE LET x == CHOOSE n \in names : TRUE
         IN  {[n \in names |-> IF n = x THEN k ELSE g[n]] :
                 g \in ChoicesOver(names \ {x}), k \in 1..Len(ValuesOf(x))}

Choices(program) == ChoicesOver(Loaded(program))

\* the map[string]any of a choice
EnvOf(g) == MapVal([n \in DOMAIN g |-> ValuesOf(n)[g[n]]])

(***************************************************************************)
(* The pipeline as a state machine: a source is parsed, checked, compiled  *)
(* and run, one instruction at a time.                                     *)
(***************************************************************************)
VARIABLES stage, source, lexer, optimized, driver, debugger, src, config,
          tree, nodeCount, built, err, program, env, vm, out, outcome, last,
          executed, visits, begins, ends, runs

vars == <<stage, source, lexer, optimized, driver, debugger, src, config,
          tree, nodeCount, built, err, program, env, vm, out, outcome, last,
          executed, visits, begins, ends, runs>>

\* The VM of Debug() running in its goroutine and the goroutine that
\* controls it: the build's debug constant, the channels vm.step and vm.curr
\* (unbuffered: open or closed), the position pc of Run and the position
\* ctl of the controller
NoDebugger ==
    [build |-> FALSE, step |-> "open", curr |-> "open", pc |-> "idle",
     ctl |-> "idle"]

\* ParseCheck's runs of runVisitors: the call that is running
\* (runRepeatable), the position i of its inner loop, more, the visitors of
\* config.Visitors with their state, and the record of what was done
NoDriver ==
    [phase |-> "idle", runRepeatable |-> FALSE, i |-> 1, more |-> FALSE,
     visitors |-> <<>>, log |-> <<>>]

NoProgram ==
    [Bytecode |-> <<>>, Arguments |-> <<>>, locations |-> <<>>,
     Constants |-> <<>>, variables |-> 0, patches |-> <<>>,
     pointers |-> {}, added |-> <<>>]

NoOut == [value |-> NilVal, err |-> NoError]

Init ==
    /\ source = <<>>
    /\ lexer = NewLexer(<<>>)
    /\ optimized = Null
    /\ driver = NoDriver
    /\ debugger = NoDebugger
    /\ src \in Sources
    /\ config \in Configs
    /\ stage = "source"
    /\ tree = Null
    /\ nodeCount = 0
    /\ built = 0
    /\ err = NoError
    /\ program = NoProgram
    /\ env = NilVal
    /\ vm = NewVM(NoProgram, 0)
    /\ out = NoOut
    /\ outcome = "none"
    /\ last = -1
    /\ executed = {}
    /\ visits = <<>>
    /\ begins = 0
    /\ ends = 0
    /\ runs = 0

\* the caller's view of what ParseWithConfig returned
Parsed(r) ==
    /\ stage' = IF r.panic THEN "panicked"
                ELSE IF ~r.err.isnil THEN "rejected" ELSE "parsed"
    /\ tree' = IF r.panic THEN Null ELSE r.tree
    /\ err' = r.err
    /\ nodeCount' = r.nodeCount
    /\ built' = r.built

\* parser.ParseWithConfig; a panic leaves the caller without a result
Parse ==
    /\ stage = "source"
    /\ Parsed(ParseWithConfig(src, config))
    /\ UNCHANGED <<debugger, driver, source, lexer, optimized, src, config, program, env,
                   vm, out, outcome, last, executed, visits, begins, ends,
                   runs>>

\* checker.Check, which ParseCheck calls once the visitors have run
CheckTree ==
    /\ stage = "parsed"
    /\ (Len(config.Visitors) > 0 => driver.phase = "done")
    /\ LET c == Check(tree, config)
       IN  /\ stage' = IF c.err.isnil THEN "checked" ELSE "rejected"
           /\ tree' = c.tree
           /\ err' = c.err
    /\ UNCHANGED <<debugger, driver, source, lexer, optimized, src, config, nodeCount,
                   built, program, env, vm, out, outcome, last, executed,
                   visits, begins, ends, runs>>

\* compiler.Compile
CompileTree ==
    /\ stage = "checked"
    /\ program' = Compile(tree, config)
    /\ stage' = "compiled"
    /\ UNCHANGED <<debugger, driver, source, lexer, optimized, src, config, tree,
                   nodeCount, built, err, env, vm, out, outcome, last,
                   executed, visits, begins, ends, runs>>

\* Run with a nil program: the source was rejected, there is none
RunNil ==
    /\ stage = "rejected"
    /\ out' = runNilProgram
    /\ outcome' = "failed"
    /\ stage' = "returned"
    /\ UNCHANGED <<debugger, driver, source, lexer, optimized, src, config, tree,
                   nodeCount, built, err, program, env, vm, last, executed,
                   visits, begins, ends, runs>>

\* Run, up to the interpreter loop: a VM with some budget, 0 being unset,
\* and an environment that is nil or a map[string]any
RunStart ==
    /\ stage = "compiled"
    /\ \E budget \in 0..MaxBudget :
          /\ vm' = NewVM(program, budget)
          /\ \/ env' = NilVal
             \/ \E g \in Choices(program) : env' = EnvOf(g)
    /\ stage' = "running"
    /\ runs' = 1
    /\ UNCHANGED <<debugger, driver, source, lexer, optimized, src, config, tree,
                   nodeCount, built, err, program, out, outcome, last,
                   executed, visits, begins, ends>>

\* the first instruction of a loop body: the one after the loop's exit test
IsLoopEntry(pgm, i) ==
    /\ i > 1
    /\ \/ pgm.Bytecode[i - 1] = "OpJumpIfEnd"
       \/ /\ i > 4
          /\ pgm.Bytecode[i - 1] = "OpJumpIfFalse"
          /\ pgm.Bytecode[i - 2] = "OpMoreOrEqual"
          /\ pgm.Bytecode[i - 3] = "OpInt"
          /\ pgm.Bytecode[i - 4] = "OpGetIndex"

\* the state after instruction i was executed with outcome o
Stepped(i, o) ==
    /\ vm' = o.vm
    /\ last' = vm.ip
    /\ executed' = executed \cup {i}
    /\ visits' = IF IsLoopEntry(program, i) /\ Len(vm.Scopes) > 0
                 THEN Append(visits, [depth |-> Len(vm.Scopes),
                                      index |-> vm.Scopes[Len(vm.Scopes)].Index])
                 ELSE visits
    /\ begins' = IF program.Bytecode[i] = "OpBegin" /\ ~o.panic
                 THEN begins + 1 ELSE begins
    /\ ends' = IF program.Bytecode[i] = "OpEnd" /\ ~o.panic
               THEN ends + 1 ELSE ends
    /\ IF o.panic
       THEN /\ out' = runFailed(o.vm, program, o.msg)
            /\ outcome' = "failed"
            /\ stage' = "returned"
       ELSE UNCHANGED <<out, outcome, stage>>

\* one iteration of the interpreter loop; a panic is recovered and returned
Step ==
    /\ stage = "running"
    /\ vm.ip < Len(program.Bytecode)
    /\ Stepped(vm.ip + 1, exec(vm, program, env))
    /\ UNCHANGED <<debugger, driver, source, lexer, optimized, src, config, tree,
                   nodeCount, built, err, program, env, runs>>

\* the loop is over: the top of the stack is returned
Return ==
    /\ stage = "running"
    /\ vm.ip >= Len(program.Bytecode)
    /\ out' = runCompleted(vm)
    /\ outcome' = "completed"
    /\ stage' = "returned"
    /\ UNCHANGED <<debugger, driver, source, lexer, optimized, src, config, tree,
                   nodeCount, built, err, program, env, vm, last, executed,
                   visits, begins, ends, runs>>

\* Run called again on the VM of a run that returned, with the same program
\* and environment
RunAgain ==
    /\ stage = "returned"
    /\ Len(program.Bytecode) > 0
    /\ runs < MaxRuns
    /\ vm' = prologue(vm, program)
    /\ stage' = "running"
    /\ runs' = runs + 1
    /\ out' = NoOut
    /\ outcome' = "none"
    /\ last' = -1
    /\ executed' = {}
    /\ visits' = <<>>
    /\ begins' = 0
    /\ ends' = 0
    /\ UNCHANGED <<debugger, driver, source, lexer, optimized, src, config, tree,
                   nodeCount, built, err, program, env>>

Next ==
    \/ Parse
    \/ CheckTree
    \/ CompileTree
    \/ RunNil
    \/ RunStart
    \/ Step
    \/ Return
    \/ RunAgain

Spec == Init /\ [][Next]_vars

(***************************************************************************)
(* The front end on runes: Lex, one state function at a time, and the      *)
(* parser on the tokens Lex returned.                                      *)
(***************************************************************************)
RuneAlphabet == {"a", "1", " ", "\n", "/", "*", "?", ".", "#", "'", ":", "+"}

TextTemplates ==
    {<<"a", " ", "n", "o", "t", " ", "i", "n", " ", "a">>,
     <<"n", "o", "t", " ", "a">>,
     <<"a", " ", "i", "n", " ", "a">>,
     <<"a", "?", "a", ":", "a">>,
     <<"a", "?", "a", ":", "a", "/", "/">>,
     <<"a", "?", ":", "a", " ", "/", "/", "a">>,
     <<"1", "+", "1", "/", "/", "a", "\n">>,
     <<"/", "*", "a", "*", "/", "1">>,
     <<"'", "\\", "'", "'">>,
     <<"'", "\\", "x", "1", "'">>,
     <<"'", "\\", "*", "'">>,
     <<"\"", "a", "\"">>,
     <<backquote, "a", backquote>>,
     <<backquote, "a">>,
     <<"(", "a", ")">>,
     <<"[", "1", "]">>,
     <<"{", "a", ":", "1", "}">>,
     <<"a", "=", "=", "1">>,
     <<"a", "|", "|", "a">>,
     <<"a", ".", "a", "(", ")">>,
     <<"a", " ", "o", "r", " ", "a">>,
     <<"a", " ", "a", "n", "d", " ", "n", "o", "t", " ", "a">>,
     <<"l", "e", "t", " ", "a", "=", "1", ";", "a">>,
     <<"i", "f", " ", "a", "{", "a", "}", "e", "l", "s", "e", "{", "a", "}">>,
     <<"a", ".", "i", "n">>,
     <<"#", "i", "n">>,
     <<"#", "i", "f", ".", "a">>,
     <<"#", "a">>,
     <<"@">>}

Texts == TextTemplates \cup SeqsUpTo(RuneAlphabet, MaxTextLen)

LexInit ==
    /\ source \in Texts
    /\ lexer = NewLexer(source)
    /\ optimized = Null
    /\ driver = NoDriver
    /\ debugger = NoDebugger
    /\ src = <<>>
    /\ config = NilConfig
    /\ stage = "text"
    /\ tree = Null
    /\ nodeCount = 0
    /\ built = 0
    /\ err = NoError
    /\ program = NoProgram
    /\ env = NilVal
    /\ vm = NewVM(NoProgram, 0)
    /\ out = NoOut
    /\ outcome = "none"
    /\ last = -1
    /\ executed = {}
    /\ visits = <<>>
    /\ begins = 0
    /\ ends = 0
    /\ runs = 0

\* Lex: one iteration of the loop over the state functions
LexStep ==
    /\ stage = "text"
    /\ lexer.state # "nil"
    /\ lexer' = stateFn(lexer)
    /\ UNCHANGED <<debugger, driver, stage, source, optimized, src, config, tree,
                   nodeCount, built, err, program, env, vm, out, outcome, last,
                   executed, visits, begins, ends, runs>>

\* Lex returns: the tokens, or the first error and no tokens
LexReturn ==
    /\ stage = "text"
    /\ lexer.state = "nil"
    /\ stage' = IF lexer.err.isnil THEN "lexed" ELSE "rejected"
    /\ err' = lexer.err
    /\ UNCHANGED <<debugger, driver, source, lexer, optimized, src, config, tree,
                   nodeCount, built, program, env, vm, out, outcome, last,
                   executed, visits, begins, ends, runs>>

\* ParseWithConfig after Lex
ParseTokens ==
    /\ stage = "lexed"
    /\ Parsed(parseTokens(lexer.tokens, config))
    /\ UNCHANGED <<debugger, driver, source, lexer, optimized, src, config, program, env,
                   vm, out, outcome, last, executed, visits, begins, ends,
                   runs>>

LexNext ==
    \/ LexStep
    \/ LexReturn
    \/ ParseTokens

LexSpec == LexInit /\ [][LexNext]_vars

(***************************************************************************)
(* The optimizer on checked trees: the default patchers are applied, and   *)
(* applied again to the tree they produced.                                *)
(***************************************************************************)
Sum(args) == <<Id("sum"), Br("(")>> \o args \o <<Br(")")>>

Arr(a, b) == <<Br("[")>> \o a \o <<Op(",")>> \o b \o <<Br("]")>>

One == <<Num("1")>>

InRange(left) == left \o <<Op("in"), Num("1"), Op(".."), Num("2")>>

MapOver(xs) ==
    <<Id("map"), Br("(")>> \o xs \o <<Op(","), Op("#"), Op("+"), Num("1"), Br(")")>>

OptimizerTemplates ==
    {InRange(One),
     InRange(<<Id("a")>>),
     InRange(<<Op("-"), Num("1")>>),
     InRange(Sum(Arr(One, One))),
     Sum(Arr(One, One)),
     Sum(Arr(<<Id("a")>>, <<Id("b")>>)),
     Sum(Arr(One, <<Num("2"), Op(","), Num("1")>>)),
     Sum(Arr(InRange(One), One)),
     Sum(<<Br("["), Num("1"), Br("]")>>),
     Sum(MapOver(<<Id("xs")>>)),
     Sum(MapOver(Arr(One, One))),
     Sum(<<Id("xs"), Op(","), Op("#")>>),
     <<Id("a"), Op("?")>> \o Sum(Arr(One, One)) \o <<Op(":")>> \o InRange(One)}
    \cup {<<Num(x), Op("in"), Num(m), Op(".."), Num(n)>> :
             x, m, n \in {"0", "1", "2"}}

OptimizeInit ==
    /\ source = <<>>
    /\ lexer = NewLexer(<<>>)
    /\ optimized = Null
    /\ driver = NoDriver
    /\ debugger = NoDebugger
    /\ src \in OptimizerTemplates \cup Sources
    /\ config = Config(0, TRUE)
    /\ stage = "source"
    /\ tree = Null
    /\ nodeCount = 0
    /\ built = 0
    /\ err = NoError
    /\ program = NoProgram
    /\ env = NilVal
    /\ vm = NewVM(NoProgram, 0)
    /\ out = NoOut
    /\ outcome = "none"
    /\ last = -1
    /\ executed = {}
    /\ visits = <<>>
    /\ begins = 0
    /\ ends = 0
    /\ runs = 0

\* optimizer.Optimize on the checked tree
OptimizeTree ==
    /\ stage = "checked"
    /\ config.Optimize
    /\ tree' = Optimize(tree)
    /\ stage' = "optimized"
    /\ UNCHANGED <<debugger, driver, source, lexer, optimized, src, config, nodeCount,
                   built, err, program, env, vm, out, outcome, last, executed,
                   visits, begins, ends, runs>>

\* the patchers applied to the tree of their first application, which is kept
OptimizeAgain ==
    /\ stage = "optimized"
    /\ optimized' = tree
    /\ tree' = Optimize(tree)
    /\ stage' = "reoptimized"
    /\ UNCHANGED <<debugger, driver, source, lexer, src, config, nodeCount, built, err,
                   program, env, vm, out, outcome, last, executed, visits,
                   begins, ends, runs>>

OptimizeNext ==
    \/ Parse
    \/ CheckTree
    \/ OptimizeTree
    \/ OptimizeAgain

OptimizeSpec == OptimizeInit /\ [][OptimizeNext]_vars

(***************************************************************************)
(* ParseCheck with visitors: runVisitors runs step by step, an iteration   *)
(* of its inner loop at a time.                                            *)
(***************************************************************************)
MaxVisitors == 3

\* func(int, int) int, func(int, int) string and func(string, int) string
FunctionTable ==
    <<Function("add", <<FuncType(<<"int", "int">>, "int")>>),
      Function("sub", <<FuncType(<<"int", "int">>, "string")>>),
      Function("join", <<FuncType(<<"string", "int">>, "string")>>)>>

\* the visitors a configuration is built from: the operators + and - with
\* their overloads, and two visitors without Reset and ShouldRepeat
VisitorPool ==
    <<OperatorOverloading("+", <<"add">>, FunctionTable),
      OperatorOverloading("+", <<"join">>, FunctionTable),
      OperatorOverloading("-", <<"sub">>, FunctionTable),
      [kind |-> "inRange"],
      [kind |-> "sumArray"]>>

VisitorLists ==
    {[i \in 1..Len(ix) |-> VisitorPool[ix[i]]] :
        ix \in {q \in UNION {[1..n -> 1..Len(VisitorPool)] : n \in 1..MaxVisitors} :
                  \A i, j \in 1..Len(q) : i # j => q[i] # q[j]}}

PatchSources ==
    {<<Num("1"), Op("+"), Num("2")>>,
     <<Num("1"), Op("+"), Num("2"), Op("+"), Num("1")>>,
     <<Num("1"), Op("-"), Num("2")>>,
     <<Num("1"), Op("-"), Num("2"), Op("+"), Num("1")>>,
     <<Num("1"), Op("-"), Num("2"), Op("-"), Num("1")>>,
     <<Id("a"), Op("+"), Num("1")>>,
     <<Num("1"), Op("*"), Num("2")>>,
     InRange(One),
     InRange(<<Num("1"), Op("+"), Num("1")>>),
     Sum(Arr(One, One)),
     Sum(Arr(One, One)) \o <<Op("-"), Num("1")>>}

PatchInit ==
    /\ source = <<>>
    /\ lexer = NewLexer(<<>>)
    /\ optimized = Null
    /\ src \in PatchSources
    /\ \E visitors \in VisitorLists :
          /\ config = [Config(0, FALSE) EXCEPT !.Functions = FunctionTable,
                                              !.Visitors = visitors]
          /\ driver = [NoDriver EXCEPT !.visitors = visitors]
    /\ debugger = NoDebugger
    /\ stage = "source"
    /\ tree = Null
    /\ nodeCount = 0
    /\ built = 0
    /\ err = NoError
    /\ program = NoProgram
    /\ env = NilVal
    /\ vm = NewVM(NoProgram, 0)
    /\ out = NoOut
    /\ outcome = "none"
    /\ last = -1
    /\ executed = {}
    /\ visits = <<>>
    /\ begins = 0
    /\ ends = 0
    /\ runs = 0

\* what the record keeps of a step
Event(ev, i, runRepeatable, reported) ==
    [ev |-> ev, v |-> i, runRepeatable |-> runRepeatable, reported |-> reported]

\* ParseCheck calls runVisitors(tree, config, false)
BeginVisitors ==
    /\ stage = "parsed"
    /\ driver.phase = "idle"
    /\ Len(config.Visitors) > 0
    /\ driver' = [driver EXCEPT !.phase = "running", !.runRepeatable = FALSE,
                                !.i = 1, !.more = FALSE]
    /\ UNCHANGED <<debugger, stage, source, lexer, optimized, src, config, tree,
                   nodeCount, built, err, program, env, vm, out, outcome, last,
                   executed, visits, begins, ends, runs>>

\* more after one more repeatable visitor has walked the tree
moreLast(more, shouldRepeat) == shouldRepeat

\* more = more || r.ShouldRepeat()
moreAfter(more, shouldRepeat) == more \/ shouldRepeat

\* an iteration of the inner loop of runVisitors, for config.Visitors[i]
VisitorStep ==
    /\ driver.phase = "running"
    /\ driver.i <= Len(driver.visitors)
    /\ LET i == driver.i
           v == driver.visitors[i]
           checked == Check(tree, config).tree
           walks == Repeatable(v) = driver.runRepeatable
           w == Walk(checked, IF Repeatable(v) THEN Reset(v) ELSE v)
           reported == Repeatable(v) /\ ShouldRepeat(w.v)
           events ==
               <<Event("check", i, driver.runRepeatable, FALSE)>>
               \o (IF walks
                   THEN <<Event("walk", i, driver.runRepeatable, reported)>>
                   ELSE <<>>)
       IN  /\ tree' = IF walks THEN w.node ELSE checked
           /\ driver' =
                [driver EXCEPT
                   !.visitors = IF walks THEN [@ EXCEPT ![i] = w.v] ELSE @,
                   !.more = IF walks /\ Repeatable(v)
                            THEN moreAfter(@, ShouldRepeat(w.v)) ELSE @,
                   !.i = i + 1,
                   !.log = @ \o events]
    /\ UNCHANGED <<debugger, stage, source, lexer, optimized, src, config, nodeCount,
                   built, err, program, env, vm, out, outcome, last, executed,
                   visits, begins, ends, runs>>

\* the end of the inner loop: another pass if more, and else the return to
\* ParseCheck, which calls runVisitors(tree, config, true) after the first
PassEnd ==
    /\ driver.phase = "running"
    /\ driver.i > Len(driver.visitors)
    /\ driver' =
         [driver EXCEPT
            !.phase = IF ~driver.more /\ driver.runRepeatable THEN "done" ELSE @,
            !.runRepeatable = IF driver.more THEN @ ELSE TRUE,
            !.i = 1,
            !.more = FALSE,
            !.log = Append(@, Event("end", 0, driver.runRepeatable, driver.more))]
    /\ UNCHANGED <<debugger, stage, source, lexer, optimized, src, config, tree,
                   nodeCount, built, err, program, env, vm, out, outcome, last,
                   executed, visits, begins, ends, runs>>

PatchNext ==
    \/ Parse
    \/ BeginVisitors
    \/ VisitorStep
    \/ PassEnd
    \/ CheckTree

PatchSpec == PatchInit /\ [][PatchNext]_vars

(***************************************************************************)
(* Properties.                                                             *)
(***************************************************************************)
Ran == stage = "returned" /\ Len(program.Bytecode) > 0

\* C1: ParseWithConfig returns normally, without panicking, on every token
\* sequence, valid or not.
C1_ParseReturnsNormally == stage # "panicked"

\* C2: Run never returns a non-nil value together with a non-nil error: a
\* failed run returns a nil value and an error, a completed run no error.
C2_ValueOrError ==
    stage = "returned" =>
        /\ ~(~IsNilValue(out.value) /\ ~out.err.isnil)
        /\ outcome = "failed" => IsNilValue(out.value) /\ ~out.err.isnil
        /\ outcome = "completed" => out.err.isnil

\* a run failed while a non-nil value was on top of the stack
C2_Witness ==
    /\ Ran
    /\ outcome = "failed"
    /\ Len(vm.Stack) > 0
    /\ ~IsNilValue(peek(vm, 1))

\* C3: when the instruction at index i panics, the error Run returns carries
\* program.locations[i], the Location of the last instruction executed.
C3_ErrorLocation ==
    (Ran /\ outcome = "failed") => out.err.Location = program.locations[last + 1]

\* a run failed at an instruction whose successor has another Location
C3_Witness ==
    /\ Ran
    /\ outcome = "failed"
    /\ last + 2 <= Len(program.locations)
    /\ program.locations[last + 1] # program.locations[last + 2]

\* C4: a run fails with the memory-budget error exactly when its memory
\* counter exceeds the budget.
C4_BudgetErrorIffExceeded ==
    Ran => ((~out.err.isnil /\ out.err.Message = MsgBudget)
                <=> vm.memory > vm.MemoryBudget)

\* C10: parsing fails whenever the parser constructed more nodes than the
\* configured maximum.
C10_NodeLimit ==
    (stage \notin {"source", "panicked"} /\ ~config.isnil
        /\ config.MaxNodes > 0 /\ built > config.MaxNodes)
    => stage = "rejected"

\* the value of a name in a map environment
Value(name) == env.v[name]

\* two results of Run agree
SameResult(o1, o2) ==
    /\ o1.err.isnil = o2.err.isnil
    /\ o1.err.isnil => Equal(o1.value, o2.value)

\* C5: for operands a, b, c of comparable nature and op1, op2 among
\* <, <=, >, >=, ==, !=, the source a op1 b op2 c evaluates to what
\* (a op1 b) && (b op2 c) evaluates to.
C5_ChainedComparisonLaw ==
    \A op1, op2 \in CmpOps :
        (/\ Ran
         /\ src = Chained(op1, op2)
         /\ env.t = "map"
         /\ Value("a").t \in {"int", "bool"}
         /\ Value("b").t = Value("a").t
         /\ Value("c").t = Value("a").t)
        => SameResult(out, Eval(Conjoined(op1, op2), env).out)

\* the instructions of a program with one of the opcodes
InstructionsOf(ops) ==
    {i \in 1..Len(program.Bytecode) : program.Bytecode[i] \in ops}

OptionalChain == <<Id("a"), Op("?."), Id("b"), Op("."), Id("c")>>

\* C6: in a?.b.c, when a evaluates to nil the expression evaluates to nil
\* and no instruction fetching b or c is executed.
C6_ChainShortCircuit ==
    (/\ stage \in {"running", "returned"}
     /\ src = OptionalChain
     /\ env.t = "map"
     /\ IsNilValue(Value("a")))
    => /\ executed \cap InstructionsOf({"OpFetch"}) = {}
       /\ stage = "returned" =>
            outcome = "completed" /\ out.err.isnil /\ IsNilValue(out.value)

\* a?.b.c has run to its end on an environment whose a is nil
C6_Witness ==
    /\ Ran
    /\ src = OptionalChain
    /\ env.t = "map"
    /\ IsNilValue(Value("a"))
    /\ InstructionsOf({"OpFetch"}) # {}
    /\ InstructionsOf({"OpJumpIfNil"}) \subseteq executed

LogicalOps == {"&&", "||", "??"}

Logical(op) == <<Id("a"), Op(op), Id("b")>>

\* a's value decides a op b
Decides(op, a) ==
    CASE op = "&&" -> a.t = "bool" /\ ~a.v
      [] op = "||" -> a.t = "bool" /\ a.v
      [] op = "??" -> ~IsNilValue(a)

\* the conditional jump of a op b, the only jump of its program (0 when the
\* program has none)
JumpOf ==
    LET jumps == InstructionsOf({"OpJumpIfFalse", "OpJumpIfTrue",
                                 "OpJumpIfNotNil"})
    IN  IF jumps = {} THEN 0 ELSE CHOOSE j \in jumps : TRUE

\* the instructions loading a name from the environment
Loads(name) ==
    {i \in InstructionsOf({"OpLoadConst"}) :
        program.Constants[program.Arguments[i] + 1].v = name}

\* C7: in a op b, a is evaluated before b, and for &&, || and ?? no
\* instruction of b is executed when a is false, true or non-nil, the
\* result then being a's value.
C7_ShortCircuit ==
    \A op \in LogicalOps \cup {"+", "=="} :
        (stage \in {"running", "returned"} /\ src = Logical(op))
        => /\ \A i \in executed \cap Loads("b") :
                \E j \in executed \cap Loads("a") : j < i
           /\ (op \in LogicalOps /\ env.t = "map" /\ Decides(op, Value("a")))
              => /\ \A i \in executed : i <= JumpOf
                 /\ stage = "returned" =>
                      /\ outcome = "completed"
                      /\ out.value.t = Value("a").t
                      /\ Equal(out.value, Value("a"))

\* a && b has run to its end with a false and b true
C7_Witness ==
    /\ Ran
    /\ src = Logical("&&")
    /\ env.t = "map"
    /\ Decides("&&", Value("a"))
    /\ Value("b").t = "bool" /\ Value("b").v
    /\ JumpOf \in executed

Backward == {"findLast", "findLastIndex"}

Reduces ==
    { <<Id("reduce"), Br("("), Id("xs"), Op(","), Op("#"), Id("acc"), Op("+"),
        Op("#"), Br(")")>>,
      <<Id("reduce"), Br("("), Id("xs"), Op(","), Op("#"), Id("acc"), Op("+"),
        Op("#"), Op(","), Num("0"), Br(")")>> }

\* the positions of xs, counted from 1, whose element satisfies # > 0
Matches == {i \in 1..Len(Value("xs").v) :
               Value("xs").v[i].t = "int" /\ Value("xs").v[i].v > 0}

LastMatch == CHOOSE i \in Matches : \A j \in Matches : j <= i

\* C9: a higher-order operator applies its predicate in ascending index
\* order, from 0 and within 0..len-1; findLast and findLastIndex apply it in
\* descending order from len-1 and evaluate to the last matching element,
\* respectively its index, or to nil when no element matches.
C9_IterationOrder ==
    (stage \in {"running", "returned"} /\ env.t = "map"
        /\ "xs" \in DOMAIN env.v /\ Value("xs").t = "array")
    => LET n == Len(Value("xs").v)
       IN  /\ \A name \in PredicateBuiltins :
                src = OverXs(name) =>
                  /\ Len(visits) <= n
                  /\ \A k \in 1..Len(visits) :
                       visits[k].index = IF name \in Backward THEN n - k ELSE k - 1
                  /\ (name \in Backward /\ stage = "returned"
                        /\ outcome = "completed")
                     => IF Matches = {} THEN IsNilValue(out.value)
                        ELSE /\ out.value.t = IF config.Expect = "invalid"
                                               THEN "int" ELSE config.Expect
                             /\ out.value.v =
                                  IF name = "findLast"
                                  THEN Value("xs").v[LastMatch].v
                                  ELSE LastMatch - 1
           /\ src \in Reduces =>
                /\ \A k \in 1..Len(visits) : visits[k].index \in 0..(n - 1)
                /\ \A k \in 1..(Len(visits) - 1) :
                     visits[k + 1].index = visits[k].index + 1

\* findLast has met a match after passing over an element that did not match
C9_Witness ==
    /\ Ran
    /\ src = OverXs("findLast")
    /\ outcome = "completed"
    /\ Len(visits) = 2
    /\ ~IsNilValue(out.value)

\* C11: a op1 b op2 c, where one of op1, op2 is ?? and the other a different
\* binary operator, is rejected by the parser with an error located at one
\* of the two operators, whichever of them comes first (no small node limit
\* is configured).
C11_CoalesceNeverMixed ==
    \A op \in MixOps :
        (/\ stage # "source"
         /\ config.MaxNodes = 0
         /\ src \in {Chained("??", op), Chained(op, "??")})
        => /\ stage = "rejected"
           /\ err.Location \in {Location(1, 2), Location(3, 4)}

\* C12: a run on a VM that has already run the program, to completion or to
\* a failure, returns what a run on a fresh VM returns.
C12_Deterministic ==
    (Ran /\ runs > 1)
    => LET fresh == runLoop(NewVM(program, vm.MemoryBudget), program, env)
       IN  /\ out.err = fresh.err
           /\ out.value.t = fresh.value.t
           /\ Equal(out.value, fresh.value)

\* a second run on a VM has completed after allocating within the budget
C12_Witness ==
    /\ Ran /\ runs = 2
    /\ outcome = "completed"
    /\ vm.memory > 0
    /\ vm.MemoryBudget <= MaxBudget + 1

ForwardJumps ==
    {"OpJump", "OpJumpIfTrue", "OpJumpIfFalse", "OpJumpIfNil", "OpJumpIfNotNil",
     "OpJumpIfEnd"}

\* the index, counted from 0, that the jump at position i (counted from 1)
\* leads to
TargetOf(i) == i + program.Arguments[i]

\* C13 as stated: every forward jump of a compiled program was patched
\* exactly once and leads to an instruction index of the program.
C13_JumpsToInstructions ==
    \A i \in InstructionsOf(ForwardJumps) :
        /\ program.patches[i] = 1
        /\ TargetOf(i) \in 0..(Len(program.Bytecode) - 1)

\* C13: every forward jump of a compiled program was patched exactly once,
\* its argument is no placeholder, and it leads forward to an instruction
\* index of the program or to the end of the program.
C13_JumpClosure ==
    \A i \in InstructionsOf(ForwardJumps) :
        /\ program.patches[i] = 1
        /\ program.Arguments[i] # placeholder
        /\ TargetOf(i) \in i..Len(program.Bytecode)

\* an optimized program one of whose jumps leads to its end and another to
\* an instruction
C13_Witness ==
    /\ stage = "compiled"
    /\ config.Optimize
    /\ \E i, j \in InstructionsOf(ForwardJumps) :
          /\ TargetOf(i) = Len(program.Bytecode)
          /\ TargetOf(j) < Len(program.Bytecode)

\* C14: in every compiled program, after the final cast is appended and after
\* the jump optimization pass, the opcode vector, the argument vector and
\* the Location vector have the same length
C14_BytecodeParity ==
    (stage \in {"compiled", "running", "returned"} /\ program # NoProgram)
    => /\ Len(program.Bytecode) = Len(program.Arguments)
       /\ Len(program.Bytecode) = Len(program.locations)

\* an optimized program with a jump that ends in the final cast
C14_Witness ==
    /\ stage = "compiled"
    /\ config.Optimize
    /\ config.Expect = "int64"
    /\ Len(program.Bytecode) > 1
    /\ program.Bytecode[Len(program.Bytecode)] = "OpCast"
    /\ \E i \in 1..Len(program.Bytecode) : program.Bytecode[i] \in ForwardJumps
    /\ Len(program.Bytecode) = Len(program.locations)

\* Lex has returned without an error
Lexed == lexer.state = "nil" /\ lexer.err.isnil /\ stage # "text"

\* C15: for every source that lexes without error, the returned token
\* sequence is non-empty, its last token is of kind EOF, and no other token
\* in it is of kind EOF
C15_SingleEOF ==
    Lexed =>
        /\ Len(lexer.tokens) > 0
        /\ lexer.tokens[Len(lexer.tokens)].Kind = "EOF"
        /\ \A i \in 1..(Len(lexer.tokens) - 1) : lexer.tokens[i].Kind # "EOF"

\* a source of three runes was lexed into a string, an operator and EOF
C15_Witness ==
    /\ Lexed
    /\ Len(lexer.tokens) = 3
    /\ lexer.tokens[1].Kind = "String"
    /\ lexer.tokens[2].Kind = "Operator"
    /\ Len(source) = 3

\* the Locations of the nodes of a tree
RECURSIVE Locations(_)
Locations(node) ==
    IF IsNull(node) THEN {}
    ELSE {node.loc} \cup
         UNION {Locations(Children(node)[i]) : i \in 1..Len(Children(node))}

InSource(loc) == 0 <= loc.From /\ loc.From <= loc.To /\ loc.To <= Len(source)

\* C16: every token produced by the lexer and every AST node produced by the
\* parser carries a Location with 0 <= from <= to <= len(source)
C16_LocationsInSource ==
    /\ Lexed => \A i \in 1..Len(lexer.tokens) : InSource(lexer.tokens[i].Location)
    /\ (Lexed /\ stage \in {"parsed", "rejected"})
         => \A loc \in Locations(tree) : InSource(loc)

\* SetLocation was called on every node of a tree
RECURSIVE Located(_)
Located(node) ==
    IsNull(node) \/ /\ node.located
                    /\ \A i \in 1..Len(Children(node)) : Located(Children(node)[i])

\* C17: every AST node of a tree returned by the parser has had its Location
\* set by the parser; no node is returned with an unset Location
C17_NodesLocated == (stage = "parsed" /\ ~IsNull(tree)) => Located(tree)

\* reduce(xs, #acc op #) and reduce(xs, #acc op #, 0)
ReduceOf(op, seeded) ==
    <<Id("reduce"), Br("("), Id("xs"), Op(","), Op("#"), Id("acc"), Op(op), Op("#")>>
    \o (IF seeded THEN <<Op(","), Num("0")>> ELSE <<>>) \o <<Br(")")>>

\* reduce(1..4, #acc + #, 0)
ReduceRange ==
    <<Id("reduce"), Br("("), Num("1"), Op(".."), Num("4"), Op(","), Op("#"),
      Id("acc"), Op("+"), Op("#"), Op(","), Num("0"), Br(")")>>

FoldOps == {"+", "-"}

\* the left fold of op over the integers arr[i..], starting from acc
RECURSIVE FoldLeft(_, _, _, _)
FoldLeft(op, acc, arr, i) ==
    IF i > Len(arr) THEN acc
    ELSE FoldLeft(op, IF op = "+" THEN acc + arr[i].v ELSE acc - arr[i].v, arr,
                  i + 1)

\* the environment binds xs to an array of integers
IntsBound ==
    /\ env.t = "map"
    /\ "xs" \in DOMAIN env.v
    /\ Value("xs").t = "array"
    /\ \A i \in 1..Len(Value("xs").v) : Value("xs").v[i].t = "int"

\* C18: reduce(arr, f, seed) evaluates to the left fold of f over the
\* elements of arr in ascending order starting with #acc = seed; without a
\* seed it starts with #acc = arr[0] and folds f over arr[1..]; and
\* reduce(1..4, #acc + #, 0) evaluates to 10
C18_ReduceFold ==
    /\ \A op \in FoldOps :
          /\ (Ran /\ src = ReduceOf(op, TRUE) /\ IntsBound)
              => /\ outcome = "completed"
                 /\ out.value.v = FoldLeft(op, 0, Value("xs").v, 1)
          /\ (Ran /\ src = ReduceOf(op, FALSE) /\ IntsBound
                 /\ Len(Value("xs").v) > 0)
              => /\ outcome = "completed"
                 /\ out.value.v = FoldLeft(op, Value("xs").v[1].v, Value("xs").v, 2)
    /\ (Ran /\ src = ReduceRange /\ vm.MemoryBudget = DefaultMemoryBudget)
       => /\ outcome = "completed"
          /\ out.value.v = 10

\* reduce(xs, #acc - #, 0) on [1, 2] has evaluated to (0 - 1) - 2
C18_Witness ==
    /\ Ran
    /\ src = ReduceOf("-", TRUE)
    /\ IntsBound
    /\ Value("xs").v = <<IntVal(1), IntVal(2)>>
    /\ outcome = "completed"
    /\ out.value.v = -3

\* a node without its children
Bare(node) == WithChildren(node, [i \in 1..Len(Children(node)) |-> Null])

\* two trees are the same, node by node
RECURSIVE SameTree(_, _)
SameTree(a, b) ==
    IF IsNull(a) \/ IsNull(b) THEN IsNull(a) /\ IsNull(b)
    ELSE /\ a.type = b.type
         /\ Len(Children(a)) = Len(Children(b))
         /\ Bare(a) = Bare(b)
         /\ \A i \in 1..Len(Children(a)) : SameTree(Children(a)[i], Children(b)[i])

\* C20: applying the default optimizer patchers (in-range, sum-array,
\* sum-map) a second time to the AST produced by their first application
\* leaves that AST unchanged
C20_OptimizerIdempotent == stage = "reoptimized" => SameTree(tree, optimized)

\* sum([1, 2, 1]) was folded into 1 + (2 + 1), and optimized again
C20_Witness ==
    /\ stage = "reoptimized"
    /\ src = Sum(Arr(One, <<Num("2"), Op(","), Num("1")>>))
    /\ tree.type = "BinaryNode"
    /\ tree.Operator = "+"
    /\ tree.Right.type = "BinaryNode"
    /\ optimized.type = "BinaryNode"

\* the steps of the record that are walks, and the ends of passes
Walks == {k \in 1..Len(driver.log) : driver.log[k].ev = "walk"}

PassEnds == {k \in 1..Len(driver.log) : driver.log[k].ev = "end"}

\* the walks of the pass that ends at step e
PassWalks(e) ==
    {k \in Walks : k < e /\ \A x \in PassEnds : x < e => x < k}

WalksOf(i) == {k \in Walks : driver.log[k].v = i}

Reporting(e) == \E k \in PassWalks(e) : driver.log[k].reported

\* C19: ParseCheck applies each non-repeatable patcher to the tree exactly
\* once, then applies the repeatable patchers in passes until a complete pass
\* ends with no patcher reporting should_repeat, and the type checker is
\* re-run on the tree before every patcher application
C19_VisitorsDriver ==
    LET log == driver.log
        N == Len(config.Visitors)
        single == {i \in 1..N : ~Repeatable(config.Visitors[i])}
        repeated == {i \in 1..N : Repeatable(config.Visitors[i])}
        passes == {e \in PassEnds : log[e].runRepeatable}
    IN  /\ \A k \in Walks :
              k > 1 /\ log[k - 1].ev = "check" /\ log[k - 1].v = log[k].v
        /\ \A i \in single :
              /\ Cardinality(WalksOf(i)) <= 1
              /\ driver.runRepeatable => Cardinality(WalksOf(i)) = 1
              /\ \A k \in WalksOf(i) : \A j \in repeated :
                    \A x \in WalksOf(j) : k < x
        /\ \A e \in passes :
              /\ \A j \in repeated :
                    Cardinality({k \in PassWalks(e) : log[k].v = j}) = 1
              /\ \A k \in PassWalks(e) : log[k].v \in repeated
              /\ Reporting(e) => e < Len(log) \/ driver.phase = "running"
              /\ ~Reporting(e) => e = Len(log) /\ driver.phase = "done"
        /\ driver.phase = "done" =>
              /\ log[Len(log)].ev = "end"
              /\ ~Reporting(Len(log))

\* 1 - 2 + 1 under the visitors of + (string, int), of - (int, int) and the
\* in-range patcher: the first pass rewrites the -, the second the +, the
\* third nothing
C19_Witness ==
    /\ driver.phase = "done"
    /\ stage = "parsed"
    /\ \E i \in 1..Len(config.Visitors) :
          ~Repeatable(config.Visitors[i]) /\ WalksOf(i) # {}
    /\ Cardinality({e \in PassEnds : driver.log[e].runRepeatable}) = 3
    /\ tree.type = "CallNode"
    /\ tree.Callee.Value = "join"

\* the reserved identifiers of the language
ReservedWords == WordOperators \cup {"not"}

\* C21: for every source, each identifier-shaped word equal to one of in, or,
\* and, not, matches, contains, startsWith, endsWith, let, if, else is
\* emitted by the lexer as an Operator token and never as an Identifier token
C21_ReservedAreOperators ==
    Lexed =>
        \A i \in 1..Len(lexer.tokens) :
            lexer.tokens[i].Kind = "Identifier"
                => lexer.tokens[i].Value \notin ReservedWords

\* whether a let of the tree binds a name that an enclosing let has bound
RECURSIVE Rebinds(_, _)
Rebinds(node, bound) ==
    IF IsNull(node) THEN FALSE
    ELSE IF node.type = "VariableDeclaratorNode"
    THEN \/ node.Name \in bound
         \/ Rebinds(node.Value, bound)
         \/ Rebinds(node.Expr, bound \cup {node.Name})
    ELSE \E i \in 1..Len(Children(node)) : Rebinds(Children(node)[i], bound)

\* C22: type-checking a let whose name is already bound by an enclosing let
\* records a "cannot redeclare" error, so in a tree that checks without
\* error no variable name is bound twice along any chain of nested let scopes
C22_NoShadowing == stage = "checked" => ~Rebinds(tree, {})

\* C23: when a run completes normally, the value stack holds exactly the
\* result of the root node: the bytecode of a node executed from depth d
\* leaves the stack at depth d + 1 (here d = 0).
C23_StackDiscipline ==
    (stage = "returned" /\ outcome = "completed") => Len(vm.Stack) = 1

\* C24: every instruction compiled from a Pointer (#, #index, #acc) is
\* executed while the open iteration frames are exactly the predicate scopes
\* the checker resolved the pointer in, so it reads the frame of the call the
\* checker resolved it against
C24_PointerFrame ==
    (stage = "running" /\ vm.ip < Len(program.Bytecode)) =>
        \A q \in program.pointers :
            q.at = vm.ip + 1 => Len(vm.Scopes) = q.frame

\* the tree after the in-range patcher alone was walked over it
InRangePatched(node) == Walk(node, [kind |-> "inRange"]).node

\* Run of the program compiled from a tree, on a VM with the given budget
RunOf(node, budget) ==
    LET compiled == Compile(node, config)
    IN  runLoop(NewVM(compiled, budget), compiled, NilVal)

\* C25: an expression x in m..n that the in-range patcher rewrites to
\* (x >= m) && (x <= n) gives Run the same outcome, value or error, before
\* and after the rewrite
C25_InRangeEquivalent ==
    (stage = "checked" /\ InRangePatched(tree) # tree) =>
        \A budget \in 0..MaxBudget :
            RunOf(tree, budget) = RunOf(InRangePatched(tree), budget)

\* the program Compile builds from the checked tree with the jump-threading
\* pass left out
Unthreaded == Compile(tree, [config EXCEPT !.Optimize = FALSE])

\* the conditional jumps whose argument the pass changed
Threaded ==
    {i \in 1..Len(program.Bytecode) :
        program.Arguments[i] # Unthreaded.Arguments[i]}

\* C26: the outcome Run returned for a program compiled with the
\* jump-threading pass is the outcome of Run on the program compiled without
\* it, for the same environment and memory budget
C26_ThreadingPreservesOutcome ==
    (stage = "returned" /\ ~config.isnil /\ config.Optimize
        /\ Len(program.Bytecode) > 0) =>
        out = runLoop(NewVM(Unthreaded, vm.MemoryBudget), Unthreaded, env)

\* a run that completed after executing a jump the pass had retargeted
C26_Witness ==
    /\ stage = "returned"
    /\ runs = 1
    /\ ~config.isnil /\ config.Optimize
    /\ outcome = "completed"
    /\ executed \cap Threaded # {}

(***************************************************************************)
(* A VM made by Debug() that runs a program in one goroutine, and a        *)
(* goroutine that controls it by alternating Step() with a receive from    *)
(* Position().  vm.step and vm.curr are unbuffered: a send and a receive   *)
(* happen together.  The constant debug of the build guards every channel  *)
(* operation of Run; both builds are modelled.                             *)
(***************************************************************************)
DebugSources ==
    { <<Id("a")>>,
      <<Op("-"), Id("a")>>,
      <<Id("a"), Op("+"), Id("b")>>,
      <<Id("a"), Op("||"), Id("b")>>,
      <<Id("a"), Op("?."), Id("b")>>,
      <<Num("1"), Op(".."), Num("2")>> }

DebugInit ==
    /\ source = <<>>
    /\ lexer = NewLexer(<<>>)
    /\ optimized = Null
    /\ driver = NoDriver
    /\ \E build \in BOOLEAN : debugger = [NoDebugger EXCEPT !.build = build]
    /\ src \in DebugSources
    /\ config = NilConfig
    /\ stage = "source"
    /\ tree = Null
    /\ nodeCount = 0
    /\ built = 0
    /\ err = NoError
    /\ program = NoProgram
    /\ env = NilVal
    /\ vm = NewVM(NoProgram, 0)
    /\ out = NoOut
    /\ outcome = "none"
    /\ last = -1
    /\ executed = {}
    /\ visits = <<>>
    /\ begins = 0
    /\ ends = 0
    /\ runs = 0

\* vm := Debug(); go vm.Run(program, env): Run's prologue has run, the
\* controller is about to call Step
DebugStart ==
    /\ stage = "compiled"
    /\ \E budget \in 0..MaxBudget :
          /\ vm' = NewVM(program, budget)
          /\ \/ env' = NilVal
             \/ \E g \in Choices(program) : env' = EnvOf(g)
    /\ debugger' = [debugger EXCEPT !.pc = "loop", !.ctl = "step"]
    /\ stage' = "running"
    /\ runs' = 1
    /\ UNCHANGED <<driver, source, lexer, optimized, src, config, tree,
                   nodeCount, built, err, program, out, outcome, last,
                   executed, visits, begins, ends>>

\* for vm.ip < len(program.Bytecode): the loop goes on to <-vm.step (or to
\* the instruction when the guard debug && vm.debug is false), or ends
DebugLoop ==
    /\ stage = "running"
    /\ debugger.pc = "loop"
    /\ debugger' =
          [debugger EXCEPT !.pc =
              IF vm.ip < Len(program.Bytecode)
              THEN IF debugger.build THEN "waitStep" ELSE "exec"
              ELSE IF debugger.build THEN "closeCurr" ELSE "return"]
    /\ UNCHANGED <<driver, stage, source, lexer, optimized, src, config,
                   tree, nodeCount, built, err, program, env, vm, out,
                   outcome, last, executed, visits, begins, ends, runs>>

\* Step() sends on vm.step while Run receives from it
DebugStep ==
    /\ stage = "running"
    /\ debugger.pc = "waitStep"
    /\ debugger.ctl = "step"
    /\ debugger.step = "open"
    /\ debugger' = [debugger EXCEPT !.pc = "exec", !.ctl = "position"]
    /\ UNCHANGED <<driver, stage, source, lexer, optimized, src, config,
                   tree, nodeCount, built, err, program, env, vm, out,
                   outcome, last, executed, visits, begins, ends, runs>>

\* the instruction at vm.ip; a panic goes to the deferred recover, which
\* binds the error and lets Run return
DebugExec ==
    /\ stage = "running"
    /\ debugger.pc = "exec"
    /\ Stepped(vm.ip + 1, exec(vm, program, env))
    /\ debugger' =
          [debugger EXCEPT !.pc =
              IF exec(vm, program, env).panic THEN "returned"
              ELSE IF debugger.build THEN "sendCurr" ELSE "loop"]
    /\ UNCHANGED <<driver, source, lexer, optimized, src, config, tree,
                   nodeCount, built, err, program, env, runs>>

\* Run sends vm.ip on vm.curr while the controller receives from Position()
DebugPosition ==
    /\ stage = "running"
    /\ debugger.pc = "sendCurr"
    /\ debugger.ctl = "position"
    /\ debugger.curr = "open"
    /\ debugger' = [debugger EXCEPT !.pc = "loop", !.ctl = "step"]
    /\ UNCHANGED <<driver, stage, source, lexer, optimized, src, config,
                   tree, nodeCount, built, err, program, env, vm, out,
                   outcome, last, executed, visits, begins, ends, runs>>

\* close(vm.curr)
DebugCloseCurr ==
    /\ stage = "running"
    /\ debugger.pc = "closeCurr"
    /\ debugger' = [debugger EXCEPT !.curr = "closed", !.pc = "closeStep"]
    /\ UNCHANGED <<driver, stage, source, lexer, optimized, src, config,
                   tree, nodeCount, built, err, program, env, vm, out,
                   outcome, last, executed, visits, begins, ends, runs>>

\* close(vm.step)
DebugCloseStep ==
    /\ stage = "running"
    /\ debugger.pc = "closeStep"
    /\ debugger' = [debugger EXCEPT !.step = "closed", !.pc = "return"]
    /\ UNCHANGED <<driver, stage, source, lexer, optimized, src, config,
                   tree, nodeCount, built, err, program, env, vm, out,
                   outcome, last, executed, visits, begins, ends, runs>>

\* Run returns the top of the stack
DebugReturn ==
    /\ stage = "running"
    /\ debugger.pc = "return"
    /\ out' = runCompleted(vm)
    /\ outcome' = "completed"
    /\ stage' = "returned"
    /\ debugger' = [debugger EXCEPT !.pc = "returned"]
    /\ UNCHANGED <<driver, source, lexer, optimized, src, config, tree,
                   nodeCount, built, err, program, env, vm, last, executed,
                   visits, begins, ends, runs>>

\* Step() on the closed vm.step: the send panics in the controller
DebugStepClosed ==
    /\ debugger.ctl = "step"
    /\ debugger.step = "closed"
    /\ debugger' = [debugger EXCEPT !.ctl = "panicked"]
    /\ UNCHANGED <<driver, stage, source, lexer, optimized, src, config,
                   tree, nodeCount, built, err, program, env, vm, out,
                   outcome, last, executed, visits, begins, ends, runs>>

DebugNext ==
    \/ Parse
    \/ CheckTree
    \/ CompileTree
    \/ DebugStart
    \/ DebugLoop
    \/ DebugStep
    \/ DebugExec
    \/ DebugPosition
    \/ DebugCloseCurr
    \/ DebugCloseStep
    \/ DebugReturn
    \/ DebugStepClosed

DebugSpec == DebugInit /\ [][DebugNext]_vars

\* C27: whenever Run on a VM made by Debug() has returned, with a value or
\* with a recovered error, vm.step and vm.curr are both closed, so the
\* controller cannot stay blocked in Step() or in a receive from Position()
C27_ChannelsClosedOnReturn ==
    stage = "returned" =>
        (debugger.step = "closed" /\ debugger.curr = "closed")

\* the instructions of this run that stored variable i
StoresOf(i) ==
    {j \in executed : /\ program.Bytecode[j] = "OpStore"
                      /\ program.Arguments[j] = i}

\* C30: an OpLoadVar i is executed only when i < program.variables and an
\* OpStore i was executed earlier in the same run, so it never reads what an
\* earlier run left in VM.Variables
C30_LoadAfterStore ==
    (/\ stage = "running"
     /\ vm.ip < Len(program.Bytecode)
     /\ program.Bytecode[vm.ip + 1] = "OpLoadVar") =>
        /\ program.Arguments[vm.ip + 1] < program.variables
        /\ StoresOf(program.Arguments[vm.ip + 1]) # {}

\* the second run on a VM has just executed an OpLoadVar
C30_Witness ==
    /\ stage = "running"
    /\ runs = 2
    /\ last >= 0
    /\ program.Bytecode[last + 1] = "OpLoadVar"
    /\ StoresOf(program.Arguments[last + 1]) # {}

(***************************************************************************)
(* Compilation against a struct environment: the fields of Env are typed,  *)
(* so the compiler addresses them by index with OpLoadField and            *)
(* OpFetchField and interns their descriptors in the constant pool.        *)
(***************************************************************************)
\* struct { a struct { b struct { c int } }; s string }
EnvStruct ==
    structNature(
        <<[name |-> "a",
           nature |-> structNature(
               <<[name |-> "b",
                  nature |-> structNature(
                      <<[name |-> "c", nature |-> integerNature]>>)]>>)],
          [name |-> "s", nature |-> stringNature]>>)

\* what fmt prints for the descriptor of the field s of EnvStruct
KeyOfS == "&{[1] [s]}"

Accesses == {".", "?."}

FieldSources ==
    { <<Id("a")>>, <<Id("s")>>, <<Id("b")>>,
      <<Id("a"), Op("."), Id("c")>>,
      <<Id("s"), Op("=="), Str("s")>>,
      <<Id("s"), Op("=="), Str(KeyOfS)>>,
      <<Str(KeyOfS), Op("=="), Id("s")>>,
      <<Id("s"), Op("=="), Id("s")>>,
      <<Br("["), Id("a"), Op("."), Id("b"), Op(","), Id("a"), Op("."), Id("b"),
        Br("]")>> }
    \cup {<<Id("a"), Op(x), Id("b")>> : x \in Accesses}
    \cup {<<Id("a"), Op(x), Id("b"), Op(y), Id("c")>> : x, y \in Accesses}

FieldConfigs ==
    {NilConfig, Config(0, FALSE), WithEnv(Config(0, FALSE), EnvStruct),
     WithEnv(Config(0, TRUE), EnvStruct),
     WithEnv(Config(SmallMaxNodes, FALSE), EnvStruct)}

FieldInit ==
    /\ source = <<>>
    /\ lexer = NewLexer(<<>>)
    /\ optimized = Null
    /\ driver = NoDriver
    /\ debugger = NoDebugger
    /\ src \in FieldSources
    /\ config \in FieldConfigs
    /\ stage = "source"
    /\ tree = Null
    /\ nodeCount = 0
    /\ built = 0
    /\ err = NoError
    /\ program = NoProgram
    /\ env = NilVal
    /\ vm = NewVM(NoProgram, 0)
    /\ out = NoOut
    /\ outcome = "none"
    /\ last = -1
    /\ executed = {}
    /\ visits = <<>>
    /\ begins = 0
    /\ ends = 0
    /\ runs = 0

FieldNext ==
    \/ Parse
    \/ CheckTree
    \/ CompileTree

FieldSpec == FieldInit /\ [][FieldNext]_vars

\* some member access of the tree is optional
RECURSIVE HasOptional(_)
HasOptional(node) ==
    IF IsNull(node) THEN FALSE
    ELSE \/ (node.type = "MemberNode" /\ node.Optional)
         \/ \E i \in 1..Len(Children(node)) : HasOptional(Children(node)[i])

\* the instructions that fetch a field through a path of several indexes
MultiLevel ==
    {i \in 1..Len(program.Bytecode) :
        /\ program.Bytecode[i] \in {"OpLoadField", "OpFetchField"}
        /\ program.Constants[program.Arguments[i] + 1].t = "field"
        /\ Len(program.Constants[program.Arguments[i] + 1].v.Index) > 1}

\* C28: the program compiled from a member chain with an optional access ?.
\* has no field-fetch instruction with a multi-level index: every access of
\* the chain has its own fetch
C28_OptionalPreventsFold ==
    (stage = "compiled" /\ HasOptional(tree)) => MultiLevel = {}

\* C29: every call addConstant(c) of a compilation returned an index i with
\* constants[i] = c, of the same type and value
C29_ConstantAtIndex ==
    stage = "compiled" =>
        \A k \in 1..Len(program.added) :
            LET held == program.Constants[program.added[k].index + 1]
            IN  /\ held.t = program.added[k].constant.t
                /\ held.v = program.added[k].constant.v

====
